---- MODULE Spec2Model ----
(***************************************************************************)
(* Sanchita Notes: the storage hook (useStorage), the App component's      *)
(* handlers and derived state, and the editor's inline @folder / #tag      *)
(* tokenizer, as one state machine.                                        *)
(*                                                                         *)
(* Text is a sequence of one-character strings.  Ids are integers handed   *)
(* out in increasing order (crypto.randomUUID never repeats one).          *)
(***************************************************************************)
EXTENDS Integers, Sequences, FiniteSets, TLC

VARIABLES
    \* localStorage
    lsNotes, lsFolders, lsTheme,
    \* useStorage state
    notes, folders, theme,
    \* App state
    view, activeNoteId, activeFolderId, activeTag, searchQuery,
    isSelectionMode, selectedNoteIds,
    \* EditorView state (meaningful while a note is open)
    content, manualFolderIds, manualTags, derivedTags, isEditing,
    folderInputValue, tagInput,
    \* position of the component: constructed, then ready once its first
    \* effects have run
    phase,
    \* environment: clock and the ids handed out so far
    now, noteUuids, folderUuids,
    \* observation: the last handler run (name, argument, answer given to
    \* window.confirm) and the localStorage keys written by the last step
    lastOp, lsLog

vars == <<lsNotes, lsFolders, lsTheme, notes, folders, theme, view,
          activeNoteId, activeFolderId, activeTag, searchQuery,
          isSelectionMode, selectedNoteIds, content, manualFolderIds,
          manualTags, derivedTags, isEditing, folderInputValue, tagInput, phase, now,
          noteUuids, folderUuids, lastOp, lsLog>>

storageVars == <<lsNotes, lsFolders, lsTheme, notes, folders, theme>>
appVars == <<view, activeNoteId, activeFolderId, activeTag, searchQuery,
             isSelectionMode, selectedNoteIds>>
editorVars == <<content, manualFolderIds, manualTags, derivedTags, isEditing,
                folderInputValue, tagInput>>

----------------------------------------------------------------------------
(* Bounds *)

\* notes / folders created in one run (ids crypto.randomUUID hands out)
MaxNotes == 1
MaxFolders == 1
\* largest value of the clock
MaxTime == 1
\* longest editor buffer of the tokenizer specification
MaxLen == 4

----------------------------------------------------------------------------
(* Text *)

NameChars == {"a", "A", "-"}
Whitespace == {" ", "\n"}
Chars == NameChars \cup Whitespace \cup {"@", "#", "."}

Range(s) == {s[i] : i \in DOMAIN s}

RECURSIVE SeqsUpTo(_, _)
SeqsUpTo(S, n) ==
    IF n = 0 THEN {<<>>}
    ELSE LET shorter == SeqsUpTo(S, n - 1)
         IN shorter \cup {Append(s, c) : s \in {t \in shorter : Len(t) = n - 1}, c \in S}

lowerChar(c) == IF c = "A" THEN "a" ELSE c
\* a name kept as typed
asTyped(s) == s
toLowerCase(s) == [i \in DOMAIN s |-> lowerChar(s[i])]

\* String.prototype.slice(from) / slice(0, to), 0-based, on 1-based sequences
sliceTo(s, to) == SubSeq(s, 1, to)
sliceFrom(s, from) == SubSeq(s, from + 1, Len(s))

\* 0-based start positions at which sub occurs in s
occurrences(s, sub) ==
    {k \in 0..(Len(s) - Len(sub)) : SubSeq(s, k + 1, k + Len(sub)) = sub}
includesStr(s, sub) == occurrences(s, sub) # {}
lastIndexOf(s, sub) ==
    IF occurrences(s, sub) = {} THEN -1
    ELSE CHOOSE k \in occurrences(s, sub) : \A j \in occurrences(s, sub) : j <= k

includes(list, x) == \E i \in DOMAIN list : list[i] = x

\* String.prototype.trim
trim(s) ==
    LET inked == {i \in DOMAIN s : s[i] \notin Whitespace}
    IN IF inked = {} THEN <<>>
       ELSE SubSeq(s, CHOOSE i \in inked : \A j \in inked : i <= j,
                      CHOOSE i \in inked : \A j \in inked : j <= i)
\* s.replace(/^#/, '') and rawName.startsWith('@') ? rawName.slice(1) : rawName
stripLeading(s, c) == IF s # <<>> /\ Head(s) = c THEN Tail(s) ELSE s

RECURSIVE dedupe(_)
\* [...new Set(list)]: first occurrences, in order
dedupe(list) ==
    IF list = <<>> THEN <<>>
    ELSE LET front == dedupe(SubSeq(list, 1, Len(list) - 1))
             last == list[Len(list)]
         IN IF includes(front, last) THEN front ELSE Append(front, last)

\* { ...obj, k: v, ... }
spread(obj, upd) ==
    [k \in DOMAIN obj \cup DOMAIN upd |-> IF k \in DOMAIN upd THEN upd[k] ELSE obj[k]]

----------------------------------------------------------------------------
(* localStorage values *)

Absent == <<>>
Malformed == <<"malformed">>
JSONstringify(v) == <<"json", v>>
JSONparse(s) == s[2]
parses(s) == s # Absent /\ s # Malformed

NOTES_KEY == "gemini_notes_data"
FOLDERS_KEY == "gemini_folders_data"
THEME_KEY == "gemini_notes_theme"

DEFAULT_FOLDERS == <<>>
\* localStorage.getItem(THEME_KEY) when nothing is stored
NoTheme == ""
Null == 0


----------------------------------------------------------------------------
(* Records *)

Folder(id, name) == [id |-> id, name |-> name, icon |-> "folder"]

Note(id, text, folderIds, tags, createdAt, updatedAt, isDeleted) ==
    [id |-> id, title |-> <<>>, content |-> text, folderIds |-> folderIds,
     tags |-> tags, createdAt |-> createdAt, updatedAt |-> updatedAt,
     isDeleted |-> isDeleted]

Op(name, arg, confirm) == [name |-> name, arg |-> arg, confirm |-> confirm]
NotAsked == "notAsked"
Accepted == "accepted"
Declined == "declined"

noteIdsOf(ns) == {ns[i].id : i \in DOMAIN ns}
folderIdsOf(fs) == {fs[i].id : i \in DOMAIN fs}
liveNotes(ns) == {ns[i] : i \in {j \in DOMAIN ns : ~ns[j].isDeleted}}

----------------------------------------------------------------------------
(* useStorage: the auto-cleanup effect *)

\* a Set that counts trashed notes too
listedFolderIds(ns) == UNION {Range(ns[i].folderIds) : i \in DOMAIN ns}

\* the Set built from the notes of the render the effect belongs to
usedFolderIds(ns) == UNION {Range(n.folderIds) : n \in liveNotes(ns)}

\* prev.filter(f => usedFolderIds.has(f.id))
filterUsed(prev, used) == SelectSeq(prev, LAMBDA f : f.id \in used)

\* an updater that stores its result whether or not it removed a folder
alwaysWrite(prev, used) == [folders |-> filterUsed(prev, used), write |-> TRUE]

\* an updater that removes one unused folder at a time
pruneOne(prev, used) ==
    LET unused == {i \in DOMAIN prev : prev[i].id \notin used}
    IN IF unused = {} THEN [folders |-> prev, write |-> FALSE]
       ELSE LET i == CHOOSE i \in unused : \A j \in unused : i <= j
            IN [folders |-> SubSeq(prev, 1, i - 1) \o SubSeq(prev, i + 1, Len(prev)),
                write |-> TRUE]

\* the setFolders updater: the next folders and whether FOLDERS_KEY is written
cleanupUpdater(prev, used) ==
    LET newFolders == filterUsed(prev, used)
    IN IF Len(newFolders) # Len(prev)
       THEN [folders |-> newFolders, write |-> TRUE]
       ELSE [folders |-> prev, write |-> FALSE]

----------------------------------------------------------------------------
(* useStorage: the setNotes updaters *)

\* an upsert that moves the saved note to the front
saveAtFront(prev, note) == <<note>> \o SelectSeq(prev, LAMBDA n : n.id # note.id)

saveNoteUpdater(prev, note) ==
    IF \E i \in DOMAIN prev : prev[i].id = note.id
    THEN LET existingIndex == CHOOSE i \in DOMAIN prev :
                 prev[i].id = note.id /\ \A j \in 1..(i - 1) : prev[j].id # note.id
         IN [prev EXCEPT ![existingIndex] = note]
    ELSE <<note>> \o prev

deleteNoteUpdater(prev, id) ==
    [i \in DOMAIN prev |->
        IF prev[i].id = id THEN spread(prev[i], [isDeleted |-> TRUE]) ELSE prev[i]]

\* a restore that takes every note out of the trash
restoreEvery(prev, id) ==
    [i \in DOMAIN prev |-> spread(prev[i], [isDeleted |-> FALSE])]

restoreNoteUpdater(prev, id) ==
    [i \in DOMAIN prev |->
        IF prev[i].id = id THEN spread(prev[i], [isDeleted |-> FALSE]) ELSE prev[i]]

permanentlyDeleteNoteUpdater(prev, id) == SelectSeq(prev, LAMBDA n : n.id # id)

\* a purge that takes the live notes too
emptyAll(prev) == <<>>

emptyTrashUpdater(prev) == SelectSeq(prev, LAMBDA n : ~n.isDeleted)

\* an updater that stores the notes of the render it was queued from
staleWritten(newNotes) == JSONstringify(notes)

\* what one updater run stores under NOTES_KEY, given its result
notesWritten(newNotes) == JSONstringify(newNotes)

\* The storage state threaded through one event and the render that follows
\* it: both collections, the values under NOTES_KEY and FOLDERS_KEY, and the
\* keys written so far.
store ==
    [notes |-> notes, stored |-> lsNotes, folders |-> folders,
     storedFolders |-> lsFolders, log |-> <<>>]

\* one setNotes updater run: it returns newNotes and stores it
ran(st, newNotes) ==
    [st EXCEPT !.notes = newNotes, !.stored = notesWritten(newNotes),
               !.log = Append(@, NOTES_KEY)]

saveNote(st, note) == ran(st, saveNoteUpdater(st.notes, note))
deleteNote(st, id) == ran(st, deleteNoteUpdater(st.notes, id))
restoreNote(st, id) == ran(st, restoreNoteUpdater(st.notes, id))
permanentlyDeleteNote(st, id) == ran(st, permanentlyDeleteNoteUpdater(st.notes, id))
emptyTrash(st) == ran(st, emptyTrashUpdater(st.notes))

RECURSIVE deleteEach(_, _)
\* ids.forEach(id => deleteNote(id)): the queued updaters, run in order
deleteEach(st, ids) ==
    IF ids = <<>> THEN st
    ELSE deleteEach(deleteNote(st, Head(ids)), Tail(ids))

\* clearAllData: the three keys removed, the collections reset
clearAllData(st) ==
    [st EXCEPT !.notes = <<>>, !.stored = Absent, !.folders = DEFAULT_FOLDERS,
               !.storedFolders = Absent]

\* The auto-cleanup effect of the render that follows a change of notes: its
\* closure holds that render's notes (renderedNotes); its updater gets the
\* latest folders.
autoCleanup(st, renderedNotes) ==
    LET cleaned == cleanupUpdater(st.folders, usedFolderIds(renderedNotes))
    IN [st EXCEPT !.folders = cleaned.folders,
                  !.storedFolders = IF cleaned.write
                                    THEN JSONstringify(cleaned.folders) ELSE @,
                  !.log = IF cleaned.write THEN Append(@, FOLDERS_KEY) ELSE @]

\* an event that changed notes, through the render and effect that follow it
rerendered(st) == autoCleanup(st, st.notes)

commit(st) ==
    /\ notes' = st.notes
    /\ lsNotes' = st.stored
    /\ folders' = st.folders
    /\ lsFolders' = st.storedFolders
    /\ lsLog' = st.log

\* createFolder: the new folder appended and stored
createFolder(prev, id, name) == Append(prev, Folder(id, name))

----------------------------------------------------------------------------
(* useStorage: the initialize effect *)

\* a migration that does not look at the legacy folderId
migrateFlagOnly(n) ==
    spread(n, [folderIds |-> IF "folderIds" \in DOMAIN n THEN n.folderIds ELSE <<>>,
               isDeleted |-> IF "isDeleted" \in DOMAIN n THEN n.isDeleted ELSE FALSE])

\* Array.isArray(n.folderIds) ? n.folderIds : (n.folderId ? [n.folderId] : []);
\* n.isDeleted || false.  A record has folderIds when it stores a list there; a
\* stored null folderId is Null.
migrate(n) ==
    spread(n, [folderIds |->
                   IF "folderIds" \in DOMAIN n THEN n.folderIds
                   ELSE IF "folderId" \in DOMAIN n /\ n.folderId # Null
                        THEN <<n.folderId>> ELSE <<>>,
               isDeleted |-> IF "isDeleted" \in DOMAIN n THEN n.isDeleted ELSE FALSE])

loadNotes(savedNotes) ==
    IF parses(savedNotes)
    THEN LET parsed == JSONparse(savedNotes)
         IN [i \in DOMAIN parsed |-> migrate(parsed[i])]
    ELSE <<>>

loadFolders(savedFolders) ==
    IF parses(savedFolders) THEN JSONparse(savedFolders) ELSE DEFAULT_FOLDERS


----------------------------------------------------------------------------
(* App.tsx: helper functions and derived state *)

RECURSIVE nameEnd(_, _)
\* the last position of the run of name characters that starts at position i
nameEnd(text, i) ==
    IF i + 1 <= Len(text) /\ text[i + 1] \in NameChars THEN nameEnd(text, i + 1) ELSE i

\* the pattern without its g flag: the first match only
matchFirstTag(text, i) ==
    LET at == {k \in i..(Len(text) - 1) : text[k] = "#" /\ text[k + 1] \in NameChars}
    IN IF at = {} THEN <<>>
       ELSE LET k == CHOOSE k \in at : \A j \in at : k <= j
            IN <<SubSeq(text, k + 1, nameEnd(text, k + 1))>>
RECURSIVE matchAllTags(_, _)
\* text.matchAll(/#([a-zA-Z0-9_-]+)/g) from position i on: the captured names
matchAllTags(text, i) ==
    IF i > Len(text) THEN <<>>
    ELSE IF text[i] = "#" /\ i + 1 <= Len(text) /\ text[i + 1] \in NameChars
         THEN <<SubSeq(text, i + 1, nameEnd(text, i + 1))>>
              \o matchAllTags(text, nameEnd(text, i + 1) + 1)
         ELSE matchAllTags(text, i + 1)

parseMetadataFromText(text) ==
    LET tagMatches == matchAllTags(text, 1)
    IN dedupe([i \in DOMAIN tagMatches |-> toLowerCase(tagMatches[i])])

\* val.match(/<trigger>([a-zA-Z0-9_-]+)(\s)$/): the leftmost position where the
\* pattern matches, with the captured name and the whole match
NoMatch == [matched |-> FALSE]
\* the pattern without its end anchor: the leftmost trigger, name and whitespace
matchAnywhere(val, trigger) ==
    LET n == Len(val)
        hits == {h \in (1..n) \X (1..n) :
                   /\ val[h[1]] = trigger
                   /\ h[1] + 1 <= h[2] - 1
                   /\ \A j \in (h[1] + 1)..(h[2] - 1) : val[j] \in NameChars
                   /\ val[h[2]] \in Whitespace}
    IN IF hits = {} THEN NoMatch
       ELSE LET h == CHOOSE g \in hits : \A f \in hits : g[1] <= f[1]
            IN [matched |-> TRUE, name |-> SubSeq(val, h[1] + 1, h[2] - 1),
                full |-> SubSeq(val, h[1], h[2])]

matchTrailing(val, trigger) ==
    LET n == Len(val)
        starts == {i \in 1..n :
                     /\ val[i] = trigger
                     /\ i + 1 <= n - 1
                     /\ \A j \in (i + 1)..(n - 1) : val[j] \in NameChars
                     /\ val[n] \in Whitespace}
    IN IF starts = {} THEN NoMatch
       ELSE LET i == CHOOSE k \in starts : \A j \in starts : k <= j
            IN [matched |-> TRUE, name |-> SubSeq(val, i + 1, n - 1),
                full |-> SubSeq(val, i, n)]

RECURSIVE removeEvery(_, _)
\* a pass that matches again what the removal left
removeEvery(val, fullMatch) ==
    LET left == SubSeq(val, 1, Len(val) - Len(fullMatch))
        folderMatch == matchTrailing(left, "@")
        tagMatch == matchTrailing(left, "#")
    IN IF folderMatch.matched THEN removeEvery(left, folderMatch.full)
       ELSE IF tagMatch.matched THEN removeEvery(left, tagMatch.full)
       ELSE left

\* a pass that keeps the trigger in the buffer
keepTrigger(val, fullMatch) == val

\* val.slice(0, val.lastIndexOf(fullMatch)) + val.slice(val.lastIndexOf(fullMatch) + fullMatch.length)
removeTrigger(val, fullMatch) ==
    sliceTo(val, lastIndexOf(val, fullMatch))
        \o sliceFrom(val, lastIndexOf(val, fullMatch) + Len(fullMatch))

\* a find that compares the names as written
findFolderExact(fs, name) ==
    LET hits == {i \in DOMAIN fs : fs[i].name = name}
    IN IF hits = {} THEN Null
       ELSE fs[CHOOSE i \in hits : \A j \in hits : i <= j].id

\* folders.find(f => f.name.toLowerCase() === name.toLowerCase())
findFolderByName(fs, name) ==
    LET hits == {i \in DOMAIN fs : toLowerCase(fs[i].name) = toLowerCase(name)}
    IN IF hits = {} THEN Null
       ELSE fs[CHOOSE i \in hits : \A j \in hits : i <= j].id

\* counts that take every note, trashed or not
folderCountsOfAll(ns) ==
    [fid \in UNION {Range(ns[i].folderIds) : i \in DOMAIN ns} |->
        Cardinality({p \in UNION {{<<i, j>> : j \in DOMAIN ns[i].folderIds} : i \in DOMAIN ns} :
                       ns[p[1]].folderIds[p[2]] = fid})]

RECURSIVE folderCountsOf(_)
\* the counts object: one increment per folder id of each non-deleted note
folderCountsOf(ns) ==
    IF ns = <<>> THEN [fid \in {} |-> 0]
    ELSE LET before == folderCountsOf(SubSeq(ns, 1, Len(ns) - 1))
             n == ns[Len(ns)]
             adds(fid) == Cardinality({i \in DOMAIN n.folderIds : n.folderIds[i] = fid})
         IN IF n.isDeleted THEN before
            ELSE [fid \in DOMAIN before \cup Range(n.folderIds) |->
                     (IF fid \in DOMAIN before THEN before[fid] ELSE 0) + adds(fid)]

folderCounts == folderCountsOf(notes)
\* folderCounts[id] || 0
folderCount(counts, id) == IF id \in DOMAIN counts THEN counts[id] ELSE 0

\* a listing left in collection order
unsorted(list) == list

RECURSIVE sortByUpdatedDesc(_)
\* list.sort((a, b) => b.updatedAt - a.updatedAt): stable
sortByUpdatedDesc(list) ==
    IF list = <<>> THEN <<>>
    ELSE LET front == sortByUpdatedDesc(SubSeq(list, 1, Len(list) - 1))
             x == list[Len(list)]
             k == Cardinality({i \in DOMAIN front : front[i].updatedAt >= x.updatedAt})
         IN SubSeq(front, 1, k) \o <<x>> \o SubSeq(front, k + 1, Len(front))

\* n.summary && n.summary.toLowerCase().includes(q)
summaryIncludes(n, q) ==
    "summary" \in DOMAIN n /\ n.summary # <<>> /\ includesStr(toLowerCase(n.summary), q)

filterNotes(ns, v, folderId, tag, query) ==
    LET live == SelectSeq(ns, LAMBDA n : ~n.isDeleted)
        scoped == IF v = "folders" /\ folderId # Null
                  THEN SelectSeq(live, LAMBDA n : includes(n.folderIds, folderId))
                  ELSE IF v = "tags" /\ tag # <<>>
                       THEN SelectSeq(live, LAMBDA n : includes(n.tags, tag))
                       ELSE live
        q == toLowerCase(query)
        found == IF query # <<>>
                 THEN SelectSeq(scoped, LAMBDA n :
                          includesStr(toLowerCase(n.content), q) \/ summaryIncludes(n, q))
                 ELSE scoped
    IN sortByUpdatedDesc(found)

filteredNotes == filterNotes(notes, view, activeFolderId, activeTag, searchQuery)

trashNotes == sortByUpdatedDesc(SelectSeq(notes, LAMBDA n : n.isDeleted))

RECURSIVE flatTags(_)
flatTags(ns) == IF ns = <<>> THEN <<>> ELSE Head(ns).tags \o flatTags(Tail(ns))

\* Array.from(new Set(notes.filter(n => !n.isDeleted).flatMap(n => n.tags)))
allTagsOf(ns) == dedupe(flatTags(SelectSeq(ns, LAMBDA n : ~n.isDeleted)))
allTags == allTagsOf(notes)

\* notes.filter(n => !n.isDeleted && n.tags.includes(tag)).length
tagCount(ns, tag) == Len(SelectSeq(ns, LAMBDA n : ~n.isDeleted /\ includes(n.tags, tag)))

\* [...new Set([...manualTags, ...derivedTags])]
\* the two lists one after the other
concatenated(manual, derived) == manual \o derived
finalTagsOf(manual, derived) == dedupe(manual \o derived)
finalTags == finalTagsOf(manualTags, derivedTags)

activeNote == CHOOSE n \in Range(notes) : n.id = activeNoteId


----------------------------------------------------------------------------
(* geminiService: analyzeNoteContent *)

\* how the promise settles
resolved(value) == [settled |-> "resolved", value |-> value]
rejected == [settled |-> "rejected", value |-> <<"null">>]
\* the results: null, or the parsed data
nullResult == <<"null">>
dataResult(data) == <<"data", data>>

\* the remote call: it throws, or returns a response with its text
callThrows == [threw |-> TRUE, text |-> Absent]
callReturns(text) == [threw |-> FALSE, text |-> text]

\* the function with no try/catch around the call and the parse
analyzeUncaught(apiKey, call) ==
    IF ~apiKey THEN resolved(nullResult)
    ELSE IF call.threw \/ call.text = Malformed THEN rejected
    ELSE IF call.text # Absent THEN resolved(dataResult(JSONparse(call.text)))
    ELSE resolved(nullResult)

analyzeNoteContent(apiKey, call) ==
    IF ~apiKey THEN resolved(nullResult)
    ELSE IF call.threw THEN resolved(nullResult)
    ELSE IF call.text # Absent
         THEN IF parses(call.text) THEN resolved(dataResult(JSONparse(call.text)))
              ELSE resolved(nullResult)
         ELSE resolved(nullResult)

----------------------------------------------------------------------------
(* Inputs *)

\* what localStorage may hold when the app starts; stored ids are 101, 102
storedLive == Note(101, <<"a">>, <<101>>, <<>>, 0, 1, FALSE)
storedTrashed ==
    spread(Note(102, <<".">>, <<101, 102>>, << <<"a">> >>, 0, 0, TRUE),
           [summary |-> <<"A", "a">>])
\* a record written before folderIds and isDeleted existed
storedLegacy ==
    [id |-> 101, title |-> <<>>, content |-> <<"#", "a">>, folderId |-> 102,
     tags |-> << <<"a">> >>, createdAt |-> 0, updatedAt |-> 1]

\* legacy records with a null folderId and with no folder field at all
storedNullFolder ==
    [id |-> 102, title |-> <<>>, content |-> <<".">>, folderId |-> Null,
     tags |-> <<>>, createdAt |-> 0, updatedAt |-> 0, isDeleted |-> TRUE]
storedNoFolder ==
    [id |-> 103, title |-> <<>>, content |-> <<>>, tags |-> <<>>, createdAt |-> 1,
     updatedAt |-> 1]
LegacyStoredNotes == {JSONstringify(<<storedLegacy, storedNullFolder, storedNoFolder>>)}

StoredNotes ==
    {Absent, Malformed, JSONstringify(<<storedTrashed, storedLive>>),
     JSONstringify(<<storedLegacy>>)}
StoredFolders ==
    {Absent, Malformed, JSONstringify(<<Folder(101, <<"a">>), Folder(102, <<"-">>)>>)}

Themes == {"system", "dark"}
Tabs == {"home", "folders", "tags", "settings"}
\* texts the search box, the editor and the New Folder prompt deliver
Queries == {<<>>, <<"A">>}
TypedBuffers ==
    {<<>>, <<"a">>, <<"#", "a">>, <<"#", "A", " ">>, <<"@", "A", " ">>, <<"@", "-", " ">>}
FolderBuffers == {<<"@", "A", " ">>}
AllBuffers == SeqsUpTo(Chars, MaxLen)
\* buffers with a trigger before the trailing trigger
TwoTriggerBuffers ==
    {<<".", " ", "@", "a", " ", "@", "-", " ">>, <<"#", "a", " ", "@", "-", " ">>,
     <<"@", "a", " ", "#", "-", " ">>}
PromptNames == {<<"a">>}
\* what the folder input and the tag input may hold, and the keys pressed in them
FolderInputs == {<<"a">>, <<"@", "A">>, <<"@">>}
TagInputs == {<<"a">>, <<"#", "A">>, <<"#">>}
Keys == {"Enter", ",", "Backspace"}
\* what the remote call may do, and the data a response may carry
analysisData == [title |-> <<"a">>, summary |-> <<"a">>, tags |-> << <<"a">> >>]
Calls ==
    {callThrows, callReturns(Absent), callReturns(Malformed),
     callReturns(JSONstringify(analysisData))}

----------------------------------------------------------------------------
(* Construction *)

editorClosed ==
    /\ content' = <<>>
    /\ manualFolderIds' = <<>>
    /\ manualTags' = <<>>
    /\ derivedTags' = <<>>
    /\ folderInputValue' = <<>>
    /\ tagInput' = <<>>
    /\ isEditing' = FALSE

\* EditorView mounts on a note: its useState initial values and first effect
editorOpened(note) ==
    /\ content' = note.content
    /\ manualFolderIds' = note.folderIds
    /\ manualTags' = note.tags
    /\ derivedTags' = parseMetadataFromText(note.content)
    /\ folderInputValue' = <<>>
    /\ tagInput' = <<>>
    /\ isEditing' = (note.content = <<>>)

\* no editor mounted
editorClosedNow ==
    /\ content = <<>>
    /\ manualFolderIds = <<>>
    /\ manualTags = <<>>
    /\ derivedTags = <<>>
    /\ folderInputValue = <<>>
    /\ tagInput = <<>>
    /\ isEditing = FALSE

\* the first render: the useState initial values, over what is stored
constructed ==
    /\ lsTheme = NoTheme
    /\ notes = <<>>
    /\ folders = <<>>
    /\ theme = "system"
    /\ view = "home"
    /\ activeNoteId = Null
    /\ activeFolderId = Null
    /\ activeTag = <<>>
    /\ searchQuery = <<>>
    /\ isSelectionMode = FALSE
    /\ selectedNoteIds = <<>>
    /\ content = <<>>
    /\ manualFolderIds = <<>>
    /\ manualTags = <<>>
    /\ derivedTags = <<>>
    /\ folderInputValue = <<>>
    /\ tagInput = <<>>
    /\ isEditing = FALSE
    /\ phase = "constructed"
    /\ now = 1
    /\ noteUuids = 0
    /\ folderUuids = 0
    /\ lastOp = Op("construct", Null, NotAsked)
    /\ lsLog = <<>>

Init ==
    /\ lsNotes \in StoredNotes
    /\ lsFolders \in StoredFolders
    /\ constructed

----------------------------------------------------------------------------
(* useStorage effects *)

\* an initialize effect without try/catch: a malformed value makes it throw
InitializeUncaught ==
    /\ phase = "constructed"
    /\ Malformed \in {lsNotes, lsFolders}
    /\ phase' = "crashed"
    /\ lastOp' = Op("initialize", lsFolders, NotAsked)
    /\ lsLog' = <<>>
    /\ UNCHANGED <<storageVars, appVars, editorVars, now, noteUuids, folderUuids>>

\* The effects of the first render, in order: the initialize effect, then the
\* auto-cleanup effect, whose closure holds the first render's notes; and, when
\* setNotes was called, the auto-cleanup effect of the render that follows.
Initialize ==
    /\ phase = "constructed"
    /\ LET savedNotes == lsNotes
           savedFolders == lsFolders
           initialized ==
               [store EXCEPT
                   !.notes = IF savedNotes # Absent THEN loadNotes(savedNotes) ELSE @,
                   !.folders = loadFolders(savedFolders),
                   !.storedFolders = IF savedFolders = Absent
                                     THEN JSONstringify(DEFAULT_FOLDERS) ELSE @,
                   !.log = IF savedFolders = Absent THEN <<FOLDERS_KEY>> ELSE <<>>]
           first == autoCleanup(initialized, notes)
           settled == IF savedNotes # Absent THEN rerendered(first) ELSE first
       IN /\ commit(settled)
          /\ lastOp' = Op("initialize", savedFolders, NotAsked)
    /\ theme' = IF lsTheme # NoTheme THEN lsTheme ELSE theme
    /\ phase' = "ready"
    /\ UNCHANGED <<lsTheme, appVars, editorVars, now, noteUuids, folderUuids>>

----------------------------------------------------------------------------
(* App handlers *)

\* events are handled once the component is mounted and its effects have run
Idle == phase = "ready"
inEditor == activeNoteId # Null
listShown ==
    /\ ~inEditor
    /\ view \notin {"settings", "trash"}
    /\ ~(view = "folders" /\ activeFolderId = Null)
    /\ ~(view = "tags" /\ activeTag = <<>>)

ui == Op("ui", Null, NotAsked)
noStorage == UNCHANGED <<storageVars, now, noteUuids, folderUuids>>

\* a tab change that keeps the filters and the selection mode
switchView(t) ==
    /\ Idle /\ ~inEditor
    /\ view' = t
    /\ lastOp' = Op("onTabChange", t, NotAsked)
    /\ lsLog' = <<>>
    /\ noStorage
    /\ UNCHANGED <<activeNoteId, activeFolderId, activeTag, searchQuery,
                   isSelectionMode, selectedNoteIds, editorVars, phase>>

\* BottomNav onTabChange
onTabChange(t) ==
    /\ Idle /\ ~inEditor
    /\ view' = t
    /\ activeFolderId' = Null
    /\ activeTag' = <<>>
    /\ isSelectionMode' = FALSE
    /\ lastOp' = Op("onTabChange", t, NotAsked)
    /\ lsLog' = <<>>
    /\ noStorage
    /\ UNCHANGED <<activeNoteId, searchQuery, selectedNoteIds, editorVars, phase>>

\* the Trash row of the settings view
openTrash ==
    /\ Idle /\ ~inEditor /\ view = "settings"
    /\ view' = "trash"
    /\ lastOp' = ui
    /\ lsLog' = <<>>
    /\ noStorage
    /\ UNCHANGED <<activeNoteId, activeFolderId, activeTag, searchQuery, isSelectionMode,
                   selectedNoteIds, editorVars, phase>>

\* TopBar onBack
onBack ==
    /\ Idle /\ ~inEditor
    /\ \/ /\ view = "folders" /\ activeFolderId # Null
          /\ activeFolderId' = Null
          /\ UNCHANGED <<view, activeTag>>
       \/ /\ view = "tags" /\ activeTag # <<>>
          /\ activeTag' = <<>>
          /\ UNCHANGED <<view, activeFolderId>>
       \/ /\ view = "trash"
          /\ view' = "settings"
          /\ UNCHANGED <<activeFolderId, activeTag>>
    /\ lastOp' = ui
    /\ lsLog' = <<>>
    /\ noStorage
    /\ UNCHANGED <<activeNoteId, searchQuery, isSelectionMode, selectedNoteIds,
                   editorVars, phase>>

\* a folder of the folder grid
selectFolder(id) ==
    /\ Idle /\ ~inEditor /\ view = "folders" /\ activeFolderId = Null
    /\ id \in folderIdsOf(folders)
    /\ activeFolderId' = id
    /\ lastOp' = ui
    /\ lsLog' = <<>>
    /\ noStorage
    /\ UNCHANGED <<view, activeNoteId, activeTag, searchQuery, isSelectionMode,
                   selectedNoteIds, editorVars, phase>>

\* the New Folder tile: prompt, then createFolder
newFolderPrompt(name) ==
    /\ Idle /\ ~inEditor /\ view = "folders" /\ activeFolderId = Null
    /\ name # <<>>
    /\ folderUuids < MaxFolders
    /\ folderUuids' = folderUuids + 1
    /\ folders' = createFolder(folders, folderUuids + 1, name)
    /\ lsFolders' = JSONstringify(folders')
    /\ lsLog' = <<FOLDERS_KEY>>
    /\ lastOp' = Op("newFolderPrompt", name, NotAsked)
    /\ UNCHANGED <<lsNotes, lsTheme, notes, theme, appVars, editorVars, phase, now,
                   noteUuids>>

\* a tag of the tag list
selectTag(tag) ==
    /\ Idle /\ ~inEditor /\ view = "tags" /\ activeTag = <<>>
    /\ includes(allTags, tag)
    /\ activeTag' = tag
    /\ lastOp' = ui
    /\ lsLog' = <<>>
    /\ noStorage
    /\ UNCHANGED <<view, activeNoteId, activeFolderId, searchQuery, isSelectionMode,
                   selectedNoteIds, editorVars, phase>>

onSearchChange(q) ==
    /\ Idle /\ ~inEditor
    /\ searchQuery' = q
    /\ lastOp' = ui
    /\ lsLog' = <<>>
    /\ noStorage
    /\ UNCHANGED <<view, activeNoteId, activeFolderId, activeTag, isSelectionMode,
                   selectedNoteIds, editorVars, phase>>

onToggleSelect ==
    /\ Idle /\ ~inEditor
    /\ isSelectionMode' = ~isSelectionMode
    /\ lastOp' = ui
    /\ lsLog' = <<>>
    /\ noStorage
    /\ UNCHANGED <<view, activeNoteId, activeFolderId, activeTag, searchQuery,
                   selectedNoteIds, editorVars, phase>>

\* selectedNoteIds after toggleSelection(id)
toggleSelection(selected, id) ==
    IF includes(selected, id) THEN SelectSeq(selected, LAMBDA nid : nid # id)
    ELSE Append(selected, id)

\* NoteCard onClick
noteCardClick(id) ==
    /\ Idle /\ listShown
    /\ \E i \in DOMAIN filteredNotes : filteredNotes[i].id = id
    /\ IF isSelectionMode
       THEN /\ selectedNoteIds' = toggleSelection(selectedNoteIds, id)
            /\ UNCHANGED <<activeNoteId, editorVars>>
       ELSE /\ activeNoteId' = id
            /\ editorOpened(CHOOSE n \in Range(notes) : n.id = id)
            /\ UNCHANGED selectedNoteIds
    /\ lastOp' = ui
    /\ lsLog' = <<>>
    /\ noStorage
    /\ UNCHANGED <<view, activeFolderId, activeTag, searchQuery, isSelectionMode, phase>>

\* the TopBar trash button: window.confirm, then deleteNote for each selected id
handleBulkDelete(confirmed) ==
    /\ Idle /\ ~inEditor /\ isSelectionMode /\ selectedNoteIds # <<>>
    /\ lastOp' = Op("handleBulkDelete", selectedNoteIds,
                    IF confirmed THEN Accepted ELSE Declined)
    /\ IF confirmed
       THEN /\ commit(rerendered(deleteEach(store, selectedNoteIds)))
            /\ selectedNoteIds' = <<>>
            /\ isSelectionMode' = FALSE
       ELSE /\ lsLog' = <<>>
            /\ UNCHANGED <<notes, lsNotes, folders, lsFolders, selectedNoteIds,
                           isSelectionMode>>
    /\ UNCHANGED <<lsTheme, theme, view, activeNoteId, activeFolderId, activeTag,
                   searchQuery, editorVars, phase, now, noteUuids, folderUuids>>

createNewNote ==
    /\ Idle /\ ~inEditor
    /\ noteUuids < MaxNotes
    /\ \E createdAt \in now..MaxTime : \E updatedAt \in createdAt..MaxTime :
         LET newNote == Note(noteUuids + 1, <<>>,
                             IF view = "folders" /\ activeFolderId # Null
                             THEN <<activeFolderId>> ELSE <<>>,
                             IF view = "tags" /\ activeTag # <<>> THEN <<activeTag>> ELSE <<>>,
                             createdAt, updatedAt, FALSE)
         IN /\ commit(rerendered(saveNote(store, newNote)))
            /\ activeNoteId' = newNote.id
            /\ editorOpened(newNote)
            /\ now' = updatedAt
            /\ lastOp' = Op("createNewNote", newNote.id, NotAsked)
    /\ noteUuids' = noteUuids + 1
    /\ UNCHANGED <<lsTheme, theme, view, activeFolderId, activeTag, searchQuery,
                   isSelectionMode, selectedNoteIds, phase, folderUuids>>

saveTheme(newTheme) ==
    /\ Idle /\ ~inEditor /\ view = "settings"
    /\ theme' = newTheme
    /\ lsTheme' = newTheme
    /\ lsLog' = <<THEME_KEY>>
    /\ lastOp' = Op("saveTheme", newTheme, NotAsked)
    /\ UNCHANGED <<lsNotes, lsFolders, notes, folders, appVars, editorVars, phase, now,
                   noteUuids, folderUuids>>

\* the Reset App Data button: window.confirm, then clearAllData
resetAppData(confirmed) ==
    /\ Idle /\ ~inEditor /\ view = "settings"
    /\ lastOp' = Op("clearAllData", Null, IF confirmed THEN Accepted ELSE Declined)
    /\ IF confirmed
       THEN /\ commit(rerendered(clearAllData(store)))
            /\ lsTheme' = NoTheme
            /\ theme' = "system"
       ELSE /\ lsLog' = <<>>
            /\ UNCHANGED storageVars
    /\ UNCHANGED <<appVars, editorVars, phase, now, noteUuids, folderUuids>>

\* the Empty Trash button
emptyTrashClick ==
    /\ Idle /\ ~inEditor /\ view = "trash"
    /\ trashNotes # <<>>
    /\ commit(rerendered(emptyTrash(store)))
    /\ lastOp' = Op("emptyTrash", Null, NotAsked)
    /\ UNCHANGED <<lsTheme, theme, appVars, editorVars, phase, now, noteUuids,
                   folderUuids>>

\* the restore button of a trashed note
restoreClick(id) ==
    /\ Idle /\ ~inEditor /\ view = "trash"
    /\ \E i \in DOMAIN trashNotes : trashNotes[i].id = id
    /\ commit(rerendered(restoreNote(store, id)))
    /\ lastOp' = Op("restoreNote", id, NotAsked)
    /\ UNCHANGED <<lsTheme, theme, appVars, editorVars, phase, now, noteUuids,
                   folderUuids>>

\* the X button of a trashed note
permanentlyDeleteClick(id) ==
    /\ Idle /\ ~inEditor /\ view = "trash"
    /\ \E i \in DOMAIN trashNotes : trashNotes[i].id = id
    /\ commit(rerendered(permanentlyDeleteNote(store, id)))
    /\ lastOp' = Op("permanentlyDeleteNote", id, NotAsked)
    /\ UNCHANGED <<lsTheme, theme, appVars, editorVars, phase, now, noteUuids,
                   folderUuids>>

\* a call of analyzeNoteContent, awaited: its outcome is all it leaves behind
analysisRequested(apiKey, call) ==
    /\ Idle
    /\ lastOp' = Op("analyzeNoteContent",
                    [apiKey |-> apiKey, call |-> call,
                     outcome |-> analyzeNoteContent(apiKey, call)], NotAsked)
    /\ lsLog' = <<>>
    /\ noStorage
    /\ UNCHANGED <<appVars, editorVars, phase>>

----------------------------------------------------------------------------
(* EditorView handlers *)

handleContentChange(val) ==
    /\ Idle /\ inEditor /\ isEditing
    /\ LET folderMatch == matchTrailing(val, "@")
           tagMatch == matchTrailing(val, "#")
       IN IF folderMatch.matched
          THEN LET found == findFolderByName(folders, folderMatch.name)
                   targetFolderId == IF found # Null THEN found ELSE folderUuids + 1
               IN /\ found = Null => folderUuids < MaxFolders
                  /\ folders' = IF found = Null
                                THEN createFolder(folders, targetFolderId, folderMatch.name)
                                ELSE folders
                  /\ lsFolders' = IF found = Null THEN JSONstringify(folders') ELSE lsFolders
                  /\ lsLog' = IF found = Null THEN <<FOLDERS_KEY>> ELSE <<>>
                  /\ folderUuids' = IF found = Null THEN folderUuids + 1 ELSE folderUuids
                  /\ manualFolderIds' = IF ~includes(manualFolderIds, targetFolderId)
                                        THEN Append(manualFolderIds, targetFolderId)
                                        ELSE manualFolderIds
                  /\ content' = removeTrigger(val, folderMatch.full)
                  /\ UNCHANGED manualTags
          ELSE IF tagMatch.matched
          THEN LET tagName == toLowerCase(tagMatch.name)
               IN /\ manualTags' = IF ~includes(manualTags, tagName)
                                   THEN Append(manualTags, tagName)
                                   ELSE manualTags
                  /\ content' = removeTrigger(val, tagMatch.full)
                  /\ lsLog' = <<>>
                  /\ UNCHANGED <<folders, lsFolders, folderUuids, manualFolderIds>>
          ELSE /\ content' = val
               /\ lsLog' = <<>>
               /\ UNCHANGED <<folders, lsFolders, folderUuids, manualFolderIds, manualTags>>
    /\ derivedTags' = parseMetadataFromText(content')
    /\ lastOp' = Op("handleContentChange", val, NotAsked)
    /\ UNCHANGED <<lsNotes, lsTheme, notes, theme, appVars, isEditing, folderInputValue,
                   tagInput, phase, now, noteUuids>>

handleSave ==
    /\ Idle /\ inEditor /\ isEditing
    /\ \E updatedAt \in now..MaxTime :
         /\ commit(rerendered(saveNote(store,
                spread(activeNote, [title |-> <<>>, content |-> content,
                                    folderIds |-> manualFolderIds, tags |-> finalTags,
                                    updatedAt |-> updatedAt]))))
         /\ now' = updatedAt
    /\ activeNoteId' = Null
    /\ editorClosed
    /\ lastOp' = Op("saveNote", activeNoteId, NotAsked)
    /\ UNCHANGED <<lsTheme, theme, view, activeFolderId, activeTag, searchQuery,
                   isSelectionMode, selectedNoteIds, phase, noteUuids, folderUuids>>

\* the editor's back button
onClose ==
    /\ Idle /\ inEditor
    /\ activeNoteId' = Null
    /\ editorClosed
    /\ lastOp' = ui
    /\ lsLog' = <<>>
    /\ noStorage
    /\ UNCHANGED <<view, activeFolderId, activeTag, searchQuery, isSelectionMode,
                   selectedNoteIds, phase>>

\* Delete Note in the menu, then Delete in the modal
confirmDelete ==
    /\ Idle /\ inEditor
    /\ commit(rerendered(deleteNote(store, activeNoteId)))
    /\ activeNoteId' = Null
    /\ editorClosed
    /\ lastOp' = Op("deleteNote", activeNoteId, Accepted)
    /\ UNCHANGED <<lsTheme, theme, view, activeFolderId, activeTag, searchQuery,
                   isSelectionMode, selectedNoteIds, phase, now, noteUuids, folderUuids>>

\* Edit Note in the menu
editNote ==
    /\ Idle /\ inEditor /\ ~isEditing
    /\ isEditing' = TRUE
    /\ lastOp' = ui
    /\ lsLog' = <<>>
    /\ noStorage
    /\ UNCHANGED <<appVars, content, manualFolderIds, manualTags, derivedTags,
                   folderInputValue, tagInput, phase>>

toggleFolder(id) ==
    /\ Idle /\ inEditor /\ isEditing
    /\ id \in folderIdsOf(folders)
    /\ manualFolderIds' = IF includes(manualFolderIds, id)
                          THEN SelectSeq(manualFolderIds, LAMBDA fid : fid # id)
                          ELSE Append(manualFolderIds, id)
    /\ lastOp' = ui
    /\ lsLog' = <<>>
    /\ noStorage
    /\ UNCHANGED <<appVars, content, manualTags, derivedTags, isEditing,
                   folderInputValue, tagInput, phase>>

removeTag(t) ==
    /\ Idle /\ inEditor /\ isEditing
    /\ includes(manualTags, t)
    /\ manualTags' = SelectSeq(manualTags, LAMBDA tag : tag # t)
    /\ lastOp' = ui
    /\ lsLog' = <<>>
    /\ noStorage
    /\ UNCHANGED <<appVars, content, manualFolderIds, derivedTags, isEditing,
                   folderInputValue, tagInput, phase>>

\* the folder input's onChange
onFolderInputChange(v) ==
    /\ Idle /\ inEditor /\ isEditing
    /\ folderInputValue' = v
    /\ lastOp' = ui
    /\ lsLog' = <<>>
    /\ noStorage
    /\ UNCHANGED <<appVars, content, manualFolderIds, manualTags, derivedTags, isEditing,
                   tagInput, phase>>

\* Enter, space or comma in the folder input
handleFolderInputKeyDown(key) ==
    /\ Idle /\ inEditor /\ isEditing
    /\ key \in {"Enter", " ", ","}
    /\ LET rawName == trim(folderInputValue)
           name == stripLeading(rawName, "@")
       IN IF rawName = <<>> \/ name = <<>>
          THEN /\ lsLog' = <<>>
               /\ UNCHANGED <<folders, lsFolders, folderUuids, manualFolderIds,
                              folderInputValue>>
          ELSE LET found == findFolderByName(folders, name)
                   targetFolderId == IF found # Null THEN found ELSE folderUuids + 1
               IN /\ found = Null => folderUuids < MaxFolders
                  /\ folders' = IF found = Null
                                THEN createFolder(folders, targetFolderId, name)
                                ELSE folders
                  /\ lsFolders' = IF found = Null THEN JSONstringify(folders') ELSE lsFolders
                  /\ lsLog' = IF found = Null THEN <<FOLDERS_KEY>> ELSE <<>>
                  /\ folderUuids' = IF found = Null THEN folderUuids + 1 ELSE folderUuids
                  /\ manualFolderIds' = IF ~includes(manualFolderIds, targetFolderId)
                                        THEN Append(manualFolderIds, targetFolderId)
                                        ELSE manualFolderIds
                  /\ folderInputValue' = <<>>
    /\ lastOp' = Op("handleFolderInputKeyDown", folderInputValue, NotAsked)
    /\ UNCHANGED <<lsNotes, lsTheme, notes, theme, appVars, content, manualTags,
                   derivedTags, isEditing, tagInput, phase, now, noteUuids>>

\* the id added whether or not it is listed
appended(ids, id) == Append(ids, id)
\* manualFolderIds after toggleFolder(id), while editing
toggledFolderIds(ids, id) ==
    IF includes(ids, id) THEN SelectSeq(ids, LAMBDA fid : fid # id) ELSE Append(ids, id)

\* a folder of the dropdown under the folder input (it lists the folders whose
\* name contains the input, ignoring case)
folderMenuClick(id) ==
    /\ Idle /\ inEditor /\ isEditing
    /\ \E i \in DOMAIN folders :
          /\ folders[i].id = id
          /\ includesStr(toLowerCase(folders[i].name), toLowerCase(folderInputValue))
    /\ manualFolderIds' = toggledFolderIds(manualFolderIds, id)
    /\ folderInputValue' = <<>>
    /\ lastOp' = Op("folderMenuClick", id, NotAsked)
    /\ lsLog' = <<>>
    /\ noStorage
    /\ UNCHANGED <<appVars, content, manualTags, derivedTags, isEditing, tagInput, phase>>

\* the Create "..." button of the dropdown: createFolder, then toggleFolder
createFolderClick ==
    /\ Idle /\ inEditor /\ isEditing
    /\ folderInputValue # <<>>
    /\ ~\E i \in DOMAIN folders :
           toLowerCase(folders[i].name) = toLowerCase(folderInputValue)
    /\ folderUuids < MaxFolders
    /\ folderUuids' = folderUuids + 1
    /\ folders' = createFolder(folders, folderUuids + 1, folderInputValue)
    /\ lsFolders' = JSONstringify(folders')
    /\ lsLog' = <<FOLDERS_KEY>>
    /\ manualFolderIds' = toggledFolderIds(manualFolderIds, folderUuids + 1)
    /\ folderInputValue' = <<>>
    /\ lastOp' = Op("createFolderClick", folderInputValue, NotAsked)
    /\ UNCHANGED <<lsNotes, lsTheme, notes, theme, appVars, content, manualTags,
                   derivedTags, isEditing, tagInput, phase, now, noteUuids>>

\* the tag input's onChange
onTagInputChange(v) ==
    /\ Idle /\ inEditor /\ isEditing
    /\ tagInput' = v
    /\ lastOp' = ui
    /\ lsLog' = <<>>
    /\ noStorage
    /\ UNCHANGED <<appVars, content, manualFolderIds, manualTags, derivedTags, isEditing,
                   folderInputValue, phase>>

\* comma, Enter or space in the tag input; Backspace in the empty tag input
handleTagKeyDown(key) ==
    /\ Idle /\ inEditor /\ isEditing
    /\ IF key \in {",", "Enter", " "}
       THEN LET val == toLowerCase(stripLeading(trim(tagInput), "#"))
            IN /\ manualTags' = IF val # <<>> /\ ~includes(manualTags, val)
                                THEN Append(manualTags, val)
                                ELSE manualTags
               /\ tagInput' = <<>>
       ELSE /\ key = "Backspace" /\ tagInput = <<>> /\ Len(manualTags) > 0
            /\ manualTags' = SubSeq(manualTags, 1, Len(manualTags) - 1)
            /\ UNCHANGED tagInput
    /\ lastOp' = Op("handleTagKeyDown", tagInput, NotAsked)
    /\ lsLog' = <<>>
    /\ noStorage
    /\ UNCHANGED <<appVars, content, manualFolderIds, derivedTags, isEditing,
                   folderInputValue, phase>>

----------------------------------------------------------------------------
(* The application: every handler *)

Next ==
    \/ Initialize
    \/ \E t \in Tabs : onTabChange(t)
    \/ openTrash
    \/ onBack
    \/ \E id \in folderIdsOf(folders) : selectFolder(id)
    \/ \E name \in PromptNames : newFolderPrompt(name)
    \/ \E tag \in Range(allTags) : selectTag(tag)
    \/ \E q \in Queries : onSearchChange(q)
    \/ onToggleSelect
    \/ \E id \in noteIdsOf(notes) : noteCardClick(id)
    \/ \E confirmed \in BOOLEAN : handleBulkDelete(confirmed)
    \/ createNewNote
    \/ \E t \in Themes : saveTheme(t)
    \/ \E apiKey \in BOOLEAN : \E call \in Calls : analysisRequested(apiKey, call)
    \/ \E confirmed \in BOOLEAN : resetAppData(confirmed)
    \/ emptyTrashClick
    \/ \E id \in noteIdsOf(notes) : restoreClick(id)
    \/ \E id \in noteIdsOf(notes) : permanentlyDeleteClick(id)
    \/ \E val \in TypedBuffers : handleContentChange(val)
    \/ handleSave
    \/ onClose
    \/ confirmDelete
    \/ editNote
    \/ \E id \in folderIdsOf(folders) : toggleFolder(id)
    \/ \E t \in Range(manualTags) : removeTag(t)
    \/ \E v \in FolderInputs : onFolderInputChange(v)
    \/ \E key \in Keys : handleFolderInputKeyDown(key)
    \/ \E id \in folderIdsOf(folders) : folderMenuClick(id)
    \/ createFolderClick
    \/ \E v \in TagInputs : onTagInputChange(v)
    \/ \E key \in Keys : handleTagKeyDown(key)

Spec == Init /\ [][Next]_vars

----------------------------------------------------------------------------
(* The storage life cycle: the handlers that read or change the note and   *)
(* folder collections, and the navigation that leads to them.              *)

NextStorage ==
    \/ Initialize
    \/ \E t \in Tabs : onTabChange(t)
    \/ openTrash
    \/ \E id \in folderIdsOf(folders) : selectFolder(id)
    \/ \E name \in PromptNames : newFolderPrompt(name)
    \/ \E id \in noteIdsOf(notes) : noteCardClick(id)
    \/ createNewNote
    \/ \E confirmed \in BOOLEAN : resetAppData(confirmed)
    \/ emptyTrashClick
    \/ \E id \in noteIdsOf(notes) : restoreClick(id)
    \/ \E id \in noteIdsOf(notes) : permanentlyDeleteClick(id)
    \/ \E val \in FolderBuffers : handleContentChange(val)
    \/ \E id \in folderIdsOf(folders) : toggleFolder(id)
    \/ handleSave
    \/ onClose
    \/ confirmDelete

SpecStorage == Init /\ [][NextStorage]_vars

----------------------------------------------------------------------------
(* Selection and the destructive actions: bulk delete, the trash, reset.   *)

NextSelect ==
    \/ Initialize
    \/ \E t \in Tabs : onTabChange(t)
    \/ openTrash
    \/ onToggleSelect
    \/ \E id \in noteIdsOf(notes) : noteCardClick(id)
    \/ \E confirmed \in BOOLEAN : handleBulkDelete(confirmed)
    \/ createNewNote
    \/ handleSave
    \/ confirmDelete
    \/ \E confirmed \in BOOLEAN : resetAppData(confirmed)
    \/ emptyTrashClick
    \/ \E id \in noteIdsOf(notes) : restoreClick(id)
    \/ \E id \in noteIdsOf(notes) : permanentlyDeleteClick(id)

SpecSelect == Init /\ [][NextSelect]_vars

----------------------------------------------------------------------------
(* The listings: navigation, filters and search over notes that are        *)
(* created, filed, tagged, trashed and restored.                           *)

NextList ==
    \/ Initialize
    \/ \E t \in Tabs : onTabChange(t)
    \/ openTrash
    \/ onBack
    \/ \E id \in folderIdsOf(folders) : selectFolder(id)
    \/ \E tag \in Range(allTags) : selectTag(tag)
    \/ \E q \in Queries : onSearchChange(q)
    \/ \E id \in noteIdsOf(notes) : noteCardClick(id)
    \/ \E name \in PromptNames : newFolderPrompt(name)
    \/ createNewNote
    \/ onClose
    \/ confirmDelete
    \/ \E id \in noteIdsOf(notes) : restoreClick(id)

SpecList == Init /\ [][NextList]_vars

----------------------------------------------------------------------------
(* Loading: what the mount makes of every stored value, legacy records and  *)
(* malformed values included, and the note operations that follow.         *)

InitLoad ==
    /\ lsNotes \in StoredNotes \cup LegacyStoredNotes
    /\ lsFolders \in StoredFolders
    /\ constructed

NextLoad ==
    \/ Initialize
    \/ \E t \in Tabs : onTabChange(t)
    \/ openTrash
    \/ \E id \in noteIdsOf(notes) : noteCardClick(id)
    \/ createNewNote
    \/ onClose
    \/ confirmDelete
    \/ emptyTrashClick
    \/ \E id \in noteIdsOf(notes) : restoreClick(id)

SpecLoad == InitLoad /\ [][NextLoad]_vars

----------------------------------------------------------------------------
(* AI enrichment: analyzeNoteContent called at any moment of a session.    *)

NextAI ==
    \/ Initialize
    \/ \E apiKey \in BOOLEAN : \E call \in Calls : analysisRequested(apiKey, call)
    \/ \E id \in noteIdsOf(notes) : noteCardClick(id)
    \/ createNewNote
    \/ onClose
    \/ confirmDelete

SpecAI == Init /\ [][NextAI]_vars

----------------------------------------------------------------------------
(* Editing from an empty store: every editor operation, and the note       *)
(* operations create, save, delete and restore.                            *)

InitEmpty ==
    /\ lsNotes = Absent
    /\ lsFolders = Absent
    /\ constructed

EditBuffers == {<<"#", "a">>, <<"#", "A", " ">>, <<"@", "A", " ">>}

\* the first render over an empty store, at the last instant the clock tells apart
InitEdit ==
    /\ lsNotes = Absent
    /\ lsFolders = Absent
    /\ lsTheme = NoTheme
    /\ notes = <<>>
    /\ folders = <<>>
    /\ theme = "system"
    /\ view = "home"
    /\ activeNoteId = Null
    /\ activeFolderId = Null
    /\ activeTag = <<>>
    /\ searchQuery = <<>>
    /\ isSelectionMode = FALSE
    /\ selectedNoteIds = <<>>
    /\ editorClosedNow
    /\ phase = "constructed"
    /\ now = MaxTime
    /\ noteUuids = 0
    /\ folderUuids = 0
    /\ lastOp = Op("construct", Null, NotAsked)
    /\ lsLog = <<>>

NextEdit ==
    \/ Initialize
    \/ \E t \in {"home", "settings"} : onTabChange(t)
    \/ openTrash
    \/ \E id \in noteIdsOf(notes) : restoreClick(id)
    \/ \E id \in noteIdsOf(notes) : noteCardClick(id)
    \/ createNewNote
    \/ editNote
    \/ \E val \in EditBuffers : handleContentChange(val)
    \/ \E id \in folderIdsOf(folders) : toggleFolder(id)
    \/ onFolderInputChange(<<"@", "A">>)
    \/ handleFolderInputKeyDown("Enter")
    \/ \E id \in folderIdsOf(folders) : folderMenuClick(id)
    \/ createFolderClick
    \/ onTagInputChange(<<"#", "A">>)
    \/ \E key \in {"Enter", "Backspace"} : handleTagKeyDown(key)
    \/ \E t \in Range(manualTags) : removeTag(t)
    \/ handleSave
    \/ onClose
    \/ confirmDelete

SpecEdit == InitEdit /\ [][NextEdit]_vars

----------------------------------------------------------------------------
(* The editor's tags from an empty store: typing, the tag input, tag       *)
(* removal and saving.                                                     *)

TagBuffers == {<<"#", "a">>, <<"#", "A", " ">>, <<"#", "-">>}

NextTags ==
    \/ Initialize
    \/ createNewNote
    \/ \E id \in noteIdsOf(notes) : noteCardClick(id)
    \/ editNote
    \/ \E val \in TagBuffers : handleContentChange(val)
    \/ \E v \in TagInputs : onTagInputChange(v)
    \/ \E key \in Keys : handleTagKeyDown(key)
    \/ \E t \in Range(manualTags) : removeTag(t)
    \/ handleSave
    \/ onClose

SpecTags == InitEmpty /\ [][NextTags]_vars

----------------------------------------------------------------------------
(* Derived tags: a stored note of any content, loaded and opened.          *)

\* the record handleSave writes for a note of this content without manual tags
storedWith(text) == Note(101, text, <<>>, parseMetadataFromText(text), 0, 1, FALSE)

InitParse ==
    /\ lsNotes \in {JSONstringify(<<storedWith(text)>>) : text \in AllBuffers}
    /\ lsFolders = Absent
    /\ constructed

NextParse ==
    \/ Initialize
    \/ \E id \in noteIdsOf(notes) : noteCardClick(id)
    \/ onClose

SpecParse == InitParse /\ [][NextParse]_vars

----------------------------------------------------------------------------
(* The storage hook on its own: a mounted useStorage holding any note and  *)
(* folder collection, and its note operations called with any id.          *)

HookNoteIds == 1..(MaxNotes + 1)
HookFolderIds == 101..(101 + MaxFolders)
\* an id that no note has
UnknownId == 999
HookFolderLists ==
    {<<>>} \cup {<<f>> : f \in HookFolderIds}
           \cup {p \in HookFolderIds \X HookFolderIds : p[1] < p[2]}
HookNote(id) ==
    {Note(id, <<"a">>, fids, <<>>, 0, 1, isDeleted) :
        fids \in HookFolderLists, isDeleted \in BOOLEAN}
RECURSIVE HookNotesFrom(_)
\* the note collections with ids from id on, in ascending order
HookNotesFrom(id) ==
    IF id \notin HookNoteIds THEN {<<>>}
    ELSE LET rest == HookNotesFrom(id + 1)
         IN rest \cup {<<n>> \o ns : n \in HookNote(id), ns \in rest}
HookNotes == HookNotesFrom(1)
HookFolders ==
    {fs \in SeqsUpTo({Folder(f, <<"a">>) : f \in HookFolderIds}, MaxFolders + 1) :
        \A i, j \in DOMAIN fs : fs[i] = fs[j] => i = j}

InitHook ==
    /\ notes \in HookNotes
    /\ folders \in HookFolders
    /\ lsNotes = JSONstringify(notes)
    /\ lsFolders = JSONstringify(folders)
    /\ lsTheme = NoTheme
    /\ theme = "system"
    /\ view = "home"
    /\ activeNoteId = Null
    /\ activeFolderId = Null
    /\ activeTag = <<>>
    /\ searchQuery = <<>>
    /\ isSelectionMode = FALSE
    /\ selectedNoteIds = <<>>
    /\ editorClosedNow
    /\ phase = "ready"
    /\ now = 1
    /\ noteUuids = MaxNotes
    /\ folderUuids = MaxFolders
    /\ lastOp = Op("mounted", Null, NotAsked)
    /\ lsLog = <<>>

\* a note operation of the hook, through the render and the effect after it
called(st, name, id) ==
    /\ Idle
    /\ commit(rerendered(st))
    /\ lastOp' = Op(name, id, NotAsked)
    /\ UNCHANGED <<lsTheme, theme, appVars, editorVars, phase, now, noteUuids,
                   folderUuids>>

deleteNoteCalled(id) == called(deleteNote(store, id), "deleteNote", id)
restoreNoteCalled(id) == called(restoreNote(store, id), "restoreNote", id)
permanentlyDeleteNoteCalled(id) ==
    called(permanentlyDeleteNote(store, id), "permanentlyDeleteNote", id)
emptyTrashCalled == called(emptyTrash(store), "emptyTrash", Null)
\* deleteNote(id); restoreNote(id): the two updaters queued by one event
deleteThenRestoreCalled(id) ==
    called(restoreNote(deleteNote(store, id), id), "deleteThenRestore", id)

\* deleteNote(id), the render and the effect after it, then restoreNote(id) and
\* the render and the effect after it
trashRoundTrip(id) ==
    called(restoreNote(rerendered(deleteNote(store, id)), id), "trashRoundTrip", id)

NextHook ==
    \/ \E id \in noteIdsOf(notes) \cup {UnknownId} : deleteNoteCalled(id)
    \/ \E id \in noteIdsOf(notes) \cup {UnknownId} : restoreNoteCalled(id)
    \/ \E id \in noteIdsOf(notes) \cup {UnknownId} : permanentlyDeleteNoteCalled(id)
    \/ emptyTrashCalled
    \/ \E id \in noteIdsOf(notes) \cup {UnknownId} : deleteThenRestoreCalled(id)
    \/ \E id \in noteIdsOf(notes) : trashRoundTrip(id)

SpecHook == InitHook /\ [][NextHook]_vars

----------------------------------------------------------------------------
(* Saving: stored notes opened, edited and saved, and new notes.           *)

NextSave ==
    \/ Initialize
    \/ \E id \in noteIdsOf(notes) : noteCardClick(id)
    \/ createNewNote
    \/ editNote
    \/ \E val \in EditBuffers : handleContentChange(val)
    \/ \E id \in folderIdsOf(folders) : toggleFolder(id)
    \/ handleSave
    \/ onClose

SpecSave == Init /\ [][NextSave]_vars

----------------------------------------------------------------------------
(* Folder names: a session on an empty store in which the New Folder       *)
(* prompt may have created a first folder, and every way to create more.   *)

FolderNames == {<<"a">>, <<"A">>}
InitNames ==
    /\ folders \in {<<>>} \cup {<<Folder(101, name)>> : name \in FolderNames}
    /\ lsFolders = JSONstringify(folders)
    /\ lsNotes = Absent
    /\ lsTheme = NoTheme
    /\ notes = <<>>
    /\ theme = "system"
    /\ view = "folders"
    /\ activeNoteId = Null
    /\ activeFolderId = Null
    /\ activeTag = <<>>
    /\ searchQuery = <<>>
    /\ isSelectionMode = FALSE
    /\ selectedNoteIds = <<>>
    /\ editorClosedNow
    /\ phase = "ready"
    /\ now = MaxTime
    /\ noteUuids = 0
    /\ folderUuids = 0
    /\ lastOp = Op("newFolderPrompt", <<"a">>, NotAsked)
    /\ lsLog = <<>>

NextNames ==
    \/ \E t \in {"home", "folders"} : onTabChange(t)
    \/ \E name \in FolderNames : newFolderPrompt(name)
    \/ createNewNote
    \/ \E val \in {<<"@", "a", " ">>, <<"@", "A", " ">>} : handleContentChange(val)
    \/ \E v \in FolderInputs \cup {<<"A">>} : onFolderInputChange(v)
    \/ \E key \in Keys : handleFolderInputKeyDown(key)
    \/ createFolderClick
    \/ \E id \in folderIdsOf(folders) : folderMenuClick(id)
    \/ onClose

SpecNames == InitNames /\ [][NextNames]_vars

----------------------------------------------------------------------------
(* Tags from the content alone: notes written, saved, reopened and         *)
(* rewritten with buffers that end in no trigger, the tag input unused.    *)

ContentBuffers == {<<"#", "a">>, <<"#", "-">>, <<"a">>, <<"#", "a", "#", "-">>}

NextContent ==
    \/ Initialize
    \/ createNewNote
    \/ \E id \in noteIdsOf(notes) : noteCardClick(id)
    \/ editNote
    \/ \E val \in ContentBuffers : handleContentChange(val)
    \/ handleSave
    \/ onClose

SpecContent == InitEmpty /\ [][NextContent]_vars

----------------------------------------------------------------------------
(* Navigation: tabs, the folder and tag filters, selection mode, and the   *)
(* notes created under them.                                               *)

NextNav ==
    \/ Initialize
    \/ \E t \in Tabs : onTabChange(t)
    \/ openTrash
    \/ onBack
    \/ \E id \in folderIdsOf(folders) : selectFolder(id)
    \/ \E tag \in Range(allTags) : selectTag(tag)
    \/ onToggleSelect
    \/ \E id \in noteIdsOf(notes) : noteCardClick(id)
    \/ \E name \in PromptNames : newFolderPrompt(name)
    \/ createNewNote
    \/ onClose
    \/ confirmDelete

SpecNav == Init /\ [][NextNav]_vars

----------------------------------------------------------------------------
(* The tokenizer: one change event of an editor session, for every buffer  *)
(* up to MaxLen characters, over folders and tags already there.           *)

TokFolders ==
    {<<>>, <<Folder(101, <<"A">>)>>,
     <<Folder(101, <<"a", "a">>), Folder(102, <<"a">>)>>}
TokManualFolderIds == {<<>>, <<101>>}
TokManualTags == {<<>>, << <<"a">> >>}

InitTok ==
    /\ folders \in TokFolders
    /\ lsFolders = JSONstringify(folders)
    /\ manualFolderIds \in TokManualFolderIds
    /\ manualTags \in TokManualTags
    /\ notes = <<Note(1, <<>>, <<>>, <<>>, 1, 1, FALSE)>>
    /\ lsNotes = JSONstringify(notes)
    /\ lsTheme = NoTheme
    /\ theme = "system"
    /\ view = "home"
    /\ activeNoteId = 1
    /\ activeFolderId = Null
    /\ activeTag = <<>>
    /\ searchQuery = <<>>
    /\ isSelectionMode = FALSE
    /\ selectedNoteIds = <<>>
    /\ content = <<>>
    /\ derivedTags = <<>>
    /\ folderInputValue = <<>>
    /\ tagInput = <<>>
    /\ isEditing = TRUE
    /\ phase = "ready"
    /\ now = 1
    /\ noteUuids = 1
    /\ folderUuids = 0
    /\ lastOp = Op("editorOpened", 1, NotAsked)
    /\ lsLog = <<>>

NextTok ==
    /\ lastOp.name = "editorOpened"
    /\ \E val \in AllBuffers \cup TwoTriggerBuffers : handleContentChange(val)

SpecTok == InitTok /\ [][NextTok]_vars

----------------------------------------------------------------------------
(* Properties of the tokenizer, under SpecTok *)

\* val ends in trigger + name + one whitespace character, the trigger at k
endsInTriggerAt(val, trigger, k) ==
    /\ k \in 1..(Len(val) - 2)
    /\ val[k] = trigger
    /\ \A j \in (k + 1)..(Len(val) - 1) : val[j] \in {"a", "A", "-"}
    /\ val[Len(val)] \in {" ", "\n"}
endsInTrigger(val, trigger) == \E k \in 1..Len(val) : endsInTriggerAt(val, trigger, k)
nameAt(val, k) == SubSeq(val, k + 1, Len(val) - 1)
lowered(s) == [i \in DOMAIN s |-> IF s[i] = "A" THEN "a" ELSE s[i]]
passed == lastOp.name = "handleContentChange"

\* C1: for every buffer ending in '@' + name + whitespace, one pass leaves in the
\* folder-association list the id of a folder whose name equals name ignoring case,
\* a folder that was there or one just appended with the name as typed, and the
\* content is the buffer up to the '@'.
C1_FolderTrigger ==
    [][lastOp'.name = "handleContentChange" =>
         \A k \in 1..Len(lastOp'.arg) :
            endsInTriggerAt(lastOp'.arg, "@", k) =>
               /\ content' = SubSeq(lastOp'.arg, 1, k - 1)
               /\ \E i \in DOMAIN folders' :
                     /\ lowered(folders'[i].name) = lowered(nameAt(lastOp'.arg, k))
                     /\ includes(manualFolderIds', folders'[i].id)
                     /\ \/ /\ folders' = folders
                        \/ /\ folders' = Append(folders, folders'[i])
                           /\ folders'[i].name = nameAt(lastOp'.arg, k)
                           /\ folders'[i].id \notin folderIdsOf(folders)]_vars

\* a pass over '.@A' + newline has run where no folder had that name: the folder
\* was created as typed and its id joined the one already associated
C1_Witness ==
    /\ passed
    /\ lastOp.arg = <<".", "@", "A", "\n">>
    /\ content = <<".">>
    /\ folders = <<Folder(1, <<"A">>)>>
    /\ manualFolderIds = <<101, 1>>

\* C2: for every buffer ending in '#' + name + whitespace, one pass leaves the
\* lower-cased name in the manual tag list, appended only if it was absent, the
\* content is the buffer up to the '#', and the folder collection and the
\* folder-association list are unchanged.
C2_TagTrigger ==
    [][lastOp'.name = "handleContentChange" =>
         \A k \in 1..Len(lastOp'.arg) :
            endsInTriggerAt(lastOp'.arg, "#", k) =>
               /\ manualTags' = IF includes(manualTags, lowered(nameAt(lastOp'.arg, k)))
                                THEN manualTags
                                ELSE Append(manualTags, lowered(nameAt(lastOp'.arg, k)))
               /\ includes(manualTags', lowered(nameAt(lastOp'.arg, k)))
               /\ content' = SubSeq(lastOp'.arg, 1, k - 1)
               /\ folders' = folders
               /\ manualFolderIds' = manualFolderIds]_vars

\* a pass over '#A-' + space has appended the tag "a-" to the one that was there
C2_Witness ==
    /\ passed
    /\ lastOp.arg = <<"#", "A", "-", " ">>
    /\ content = <<>>
    /\ manualTags = << <<"a">>, <<"a", "-">> >>
    /\ manualFolderIds = <<101>>

\* C9: when the buffer ends in neither pattern, the pass sets the content to the
\* buffer and leaves the folder-association list, the manual tag list and the
\* folder collection unchanged.
C9_NoMatchNoOp ==
    [][(/\ lastOp'.name = "handleContentChange"
        /\ ~endsInTrigger(lastOp'.arg, "@")
        /\ ~endsInTrigger(lastOp'.arg, "#")) =>
         /\ content' = lastOp'.arg
         /\ manualFolderIds' = manualFolderIds
         /\ manualTags' = manualTags
         /\ folders' = folders]_vars

\* a pass has run over a trigger followed by whitespace that is not at the end of
\* the buffer
C9_Witness ==
    /\ passed
    /\ lastOp.arg = <<"@", "a", " ", ".">>
    /\ content = <<"@", "a", " ", ".">>
    /\ manualFolderIds = <<>>
    /\ folders = <<>>

----------------------------------------------------------------------------
(* Properties of the folder collection, under SpecStorage *)

\* folder id fid is listed by a note of ns that is not deleted
referenced(fid, ns) ==
    \E i \in DOMAIN ns :
       ~ns[i].isDeleted /\ \E j \in DOMAIN ns[i].folderIds : ns[i].folderIds[j] = fid
restrictedTo(fs, ns) == SelectSeq(fs, LAMBDA f : referenced(f.id, ns))
\* the operations that change the note collection
NoteOps ==
    {"saveNote", "createNewNote", "deleteNote", "restoreNote", "permanentlyDeleteNote",
     "emptyTrash"}
changedNotes(op) ==
    op.name \in NoteOps \/ (op.name = "clearAllData" /\ op.confirm = Accepted)
\* the folder collection an operation hands to the prune pass
handedOver(op, fs) == IF op.name = "clearAllData" THEN <<>> ELSE fs

\* C3 (as stated): after the prune pass that follows a change of the note
\* collection, the folder collection is the previous one restricted to the folders
\* referenced by a non-deleted note, and the persisted folder value equals the
\* in-memory folder collection.
C3_PruneContract ==
    [][changedNotes(lastOp') =>
         /\ folders' = restrictedTo(handedOver(lastOp', folders), notes')
         /\ lsFolders' = <<"json", folders'>>]_vars

\* C3 (amended): after the prune pass that follows a change of the note
\* collection, the folder collection is the previous one restricted to the folders
\* referenced by a non-deleted note; the folder key is written exactly when the pass
\* removed a folder, and then holds the in-memory collection; otherwise the
\* persisted value stays as the operation left it (absent after clearAllData,
\* malformed if it was malformed), and in-memory is what it reads back as.
C3_PruneContractAmended ==
    [][changedNotes(lastOp') =>
         LET before == handedOver(lastOp', folders)
             left == IF lastOp'.name = "clearAllData" THEN Absent ELSE lsFolders
         IN /\ folders' = restrictedTo(before, notes')
            /\ lsFolders' = IF folders' # before THEN <<"json", folders'>> ELSE left
            /\ \/ lsFolders' = <<"json", folders'>>
               \/ lsFolders' \in {Absent, Malformed} /\ folders' = <<>>]_vars

\* a save that took the note out of its folder has pruned the folder and stored
\* the empty collection
C3_Witness ==
    /\ lastOp.name = "saveNote"
    /\ lsLog = <<NOTES_KEY, FOLDERS_KEY>>
    /\ folders = <<>>
    /\ lsFolders = <<"json", <<>> >>
    /\ \E i \in DOMAIN notes : notes[i].id = lastOp.arg /\ ~notes[i].isDeleted

\* C4: when the app starts with a stored note collection and a stored folder
\* collection, after initialization and its prune passes every stored folder
\* referenced by a non-deleted stored note is in the in-memory folder collection
\* and in persisted storage.
C4_LoadKeepsReferencedFolders ==
    (lastOp.name = "initialize" /\ parses(lsNotes) /\ parses(lastOp.arg)) =>
        \A f \in Range(JSONparse(lastOp.arg)) :
           referenced(f.id, notes) =>
              /\ includes(folders, f)
              /\ parses(lsFolders) /\ includes(JSONparse(lsFolders), f)

\* C5: when deleteNote trashes the last non-deleted note that references a folder,
\* the prune pass that follows removes the folder from the folder collection and
\* from persisted storage, while the trashed note still lists the folder id.
C5_TrashedNotesDoNotProtect ==
    [][lastOp'.name = "deleteNote" =>
         \A i \in DOMAIN folders :
            (/\ referenced(folders[i].id, notes)
             /\ \A k \in DOMAIN notes :
                   (~notes[k].isDeleted /\ includes(notes[k].folderIds, folders[i].id))
                      => notes[k].id = lastOp'.arg) =>
               /\ ~includes(folders', folders[i])
               /\ lsFolders' = <<"json", folders'>>
               /\ \E k \in DOMAIN notes' :
                     /\ notes'[k].id = lastOp'.arg
                     /\ notes'[k].isDeleted
                     /\ includes(notes'[k].folderIds, folders[i].id)]_vars

\* the only note of folder 1 has been trashed: the folder is gone from memory and
\* from storage, and the note still lists it
C5_Witness ==
    /\ lastOp.name = "deleteNote"
    /\ lsLog = <<NOTES_KEY, FOLDERS_KEY>>
    /\ folders = <<>>
    /\ lsFolders = <<"json", <<>> >>
    /\ \E i \in DOMAIN notes :
          notes[i].id = lastOp.arg /\ notes[i].isDeleted /\ includes(notes[i].folderIds, 1)

----------------------------------------------------------------------------
(* Properties of the destructive actions and of persistence, under SpecSelect *)

Destructive == {"handleBulkDelete", "emptyTrash", "clearAllData"}
timesWritten(log, key) == Cardinality({i \in DOMAIN log : log[i] = key})

\* C6: bulk delete, empty trash and reset change the note, folder and theme state
\* only after the user confirmed that action; when the confirmation is declined or
\* not asked, the state is unchanged.
C6_DestructiveNeedsConfirmation ==
    [][(lastOp'.name \in Destructive /\ lastOp'.confirm # Accepted) =>
         UNCHANGED <<notes, folders, theme, lsNotes, lsFolders, lsTheme>>]_vars

\* C10: each of saveNote, deleteNote, restoreNote, permanentlyDeleteNote and
\* emptyTrash writes the note key exactly once, a bulk delete once per selected
\* note, and after it the persisted note collection equals the in-memory one.
C10_WriteThrough ==
    [][/\ lastOp'.name \in NoteOps =>
            /\ timesWritten(lsLog', NOTES_KEY) = 1
            /\ lsNotes' = <<"json", notes'>>
       /\ (lastOp'.name = "handleBulkDelete" /\ lastOp'.confirm = Accepted) =>
            /\ timesWritten(lsLog', NOTES_KEY) = Len(lastOp'.arg)
            /\ lsNotes' = <<"json", notes'>>]_vars

\* a confirmed bulk delete of two notes has written the note key twice and storage
\* holds the collection with both in the trash
C10_Witness ==
    /\ lastOp.name = "handleBulkDelete"
    /\ lastOp.confirm = Accepted
    /\ Len(lastOp.arg) = 2
    /\ timesWritten(lsLog, NOTES_KEY) = 2
    /\ lsNotes = <<"json", notes>>
    /\ \A i \in DOMAIN lastOp.arg :
          \E k \in DOMAIN notes : notes[k].id = lastOp.arg[i] /\ notes[k].isDeleted

----------------------------------------------------------------------------
(* Properties of the derived state, under SpecList *)

listsFolder(n, fid) == \E j \in DOMAIN n.folderIds : n.folderIds[j] = fid
listsTag(n, tag) == \E j \in DOMAIN n.tags : n.tags[j] = tag
live == {i \in DOMAIN notes : ~notes[i].isDeleted}
trashed == {i \in DOMAIN notes : notes[i].isDeleted}
containsIgnoringCase(s, q) ==
    \E k \in 0..(Len(s) - Len(q)) : lowered(SubSeq(s, k + 1, k + Len(q))) = lowered(q)

\* C7: in every reachable state a trashed note adds nothing to a folder usage count
\* or a tag usage count, and is absent from the tag list and from the note listing.
C7_TrashedInvisible ==
    /\ \A fid \in UNION {Range(notes[i].folderIds) : i \in DOMAIN notes} :
          folderCount(folderCounts, fid) =
             Cardinality({p \in UNION {{<<i, j>> : j \in DOMAIN notes[i].folderIds} : i \in live} :
                            notes[p[1]].folderIds[p[2]] = fid})
    /\ \A tag \in UNION {Range(notes[i].tags) : i \in DOMAIN notes} :
          /\ tagCount(notes, tag) = Cardinality({i \in live : listsTag(notes[i], tag)})
          /\ includes(allTags, tag) <=> \E i \in live : listsTag(notes[i], tag)
    /\ \A i \in trashed :
          \A k \in DOMAIN filteredNotes : filteredNotes[k].id # notes[i].id

\* the last note filed under folder 101 and the only tagged notes are in the trash:
\* the folder counts nothing, the tag list and the listing are empty
C7_Witness ==
    /\ lastOp.name = "deleteNote"
    /\ lastOp.arg = 101
    /\ \A i \in DOMAIN notes : notes[i].isDeleted /\ listsFolder(notes[i], 101)
    /\ \E i \in DOMAIN notes : listsTag(notes[i], <<"a">>)
    /\ folderCount(folderCounts, 101) = 0
    /\ allTags = <<>>
    /\ view = "home"
    /\ filteredNotes = <<>>

\* C8: the list shown is exactly the non-deleted notes that list the active folder
\* (view 'folders' with an active folder) or the active tag (view 'tags' with an
\* active tag) and, when the search string is not empty, contain it ignoring case
\* in content or summary; it is ordered by updatedAt, most recent first.
C8_NoteListing ==
    LET inScope(n) ==
            /\ (view = "folders" /\ activeFolderId # Null) => listsFolder(n, activeFolderId)
            /\ (view = "tags" /\ activeTag # <<>>) => listsTag(n, activeTag)
        found(n) ==
            \/ searchQuery = <<>>
            \/ containsIgnoringCase(n.content, searchQuery)
            \/ "summary" \in DOMAIN n /\ containsIgnoringCase(n.summary, searchQuery)
        wanted == {i \in live : inScope(notes[i]) /\ found(notes[i])}
    IN /\ Len(filteredNotes) = Cardinality(wanted)
       /\ \A i \in wanted : \E k \in DOMAIN filteredNotes : filteredNotes[k].id = notes[i].id
       /\ \A j, k \in DOMAIN filteredNotes :
             j < k => filteredNotes[j].updatedAt >= filteredNotes[k].updatedAt

\* a search for "A" lists the note that has it in its content before the older,
\* restored note that has it in its summary, and leaves out the empty new note
C8_Witness ==
    /\ view = "home"
    /\ searchQuery = <<"A">>
    /\ Cardinality(live) = 3
    /\ Len(filteredNotes) = 2
    /\ filteredNotes[1].id = 101
    /\ filteredNotes[2].id = 102
    /\ filteredNotes[1].updatedAt > filteredNotes[2].updatedAt
    /\ notes[2].id = 102

----------------------------------------------------------------------------
(* Properties of loading, under SpecLoad *)

\* C11: a stored note value that does not parse leaves the note collection empty,
\* a stored folder value that does not parse leaves the default folder set; the
\* mount ends in the ready state, never in an error state, and from then on the
\* handlers stay executable (a new note can be created whenever a list is shown
\* and an id is left).
C11_MalformedRecovered ==
    /\ phase \in {"constructed", "ready"}
    /\ lastOp.name = "initialize" =>
          /\ phase = "ready"
          /\ lsNotes = Malformed => notes = <<>>
          /\ lastOp.arg = Malformed => folders = <<>> /\ folders = DEFAULT_FOLDERS
    /\ (phase = "ready" /\ activeNoteId = Null /\ noteUuids < MaxNotes)
          => ENABLED createNewNote
    /\ (phase = "ready" /\ activeNoteId = Null) => ENABLED onTabChange("settings")

\* the mount over a malformed note value and a malformed folder value has ended
\* ready, with both collections empty and a new note creatable
C11_Witness ==
    /\ lastOp.name = "initialize"
    /\ lsNotes = Malformed
    /\ lastOp.arg = Malformed
    /\ phase = "ready"
    /\ notes = <<>>
    /\ folders = <<>>
    /\ ENABLED createNewNote

\* C12: every stored note record is loaded with folderIds equal to the stored list
\* when there is one, else the one-element list of the legacy folderId when the
\* record has one (not null), else the empty list; with isDeleted equal to the
\* stored flag, or false when it is missing; and with every other field as stored.
C12_LoadMigration ==
    (lastOp.name = "initialize" /\ lsNotes \notin {Absent, Malformed}) =>
        /\ Len(notes) = Len(lsNotes[2])
        /\ \A i \in DOMAIN notes :
              LET stored == lsNotes[2][i]
                  loaded == notes[i]
              IN /\ DOMAIN loaded = DOMAIN stored \cup {"folderIds", "isDeleted"}
                 /\ loaded.folderIds =
                       IF "folderIds" \in DOMAIN stored THEN stored.folderIds
                       ELSE IF "folderId" \in DOMAIN stored /\ stored.folderId # 0
                            THEN <<stored.folderId>> ELSE <<>>
                 /\ loaded.isDeleted =
                       IF "isDeleted" \in DOMAIN stored THEN stored.isDeleted ELSE FALSE
                 /\ \A k \in DOMAIN stored \ {"folderIds", "isDeleted"} :
                       loaded[k] = stored[k]

\* three legacy records have been loaded: one filed by its folderId, one with a
\* null folderId and its stored flag, one with no folder field and no flag
C12_Witness ==
    /\ lastOp.name = "initialize"
    /\ Len(notes) = 3
    /\ notes[1].folderIds = <<102>> /\ notes[1].folderId = 102 /\ ~notes[1].isDeleted
    /\ notes[2].folderIds = <<>> /\ notes[2].folderId = 0 /\ notes[2].isDeleted
    /\ notes[3].folderIds = <<>> /\ ~notes[3].isDeleted
    /\ notes[1].content = <<"#", "a">>

----------------------------------------------------------------------------
(* Properties of analyzeNoteContent, under SpecAI *)

\* C13: analyzeNoteContent always resolves, with the parsed data or with null, and
\* never rejects; it resolves with null when no credential is configured, when the
\* call throws, when the response has no text and when the text does not parse;
\* and it changes no note, folder or persisted state.
C13_EnrichmentBestEffort ==
    [][lastOp'.name = "analyzeNoteContent" =>
         LET in == lastOp'.arg
             failed == \/ ~in.apiKey
                       \/ in.call.threw
                       \/ in.call.text = <<>>
                       \/ in.call.text = <<"malformed">>
         IN /\ in.outcome.settled = "resolved"
            /\ failed => in.outcome.value = <<"null">>
            /\ ~failed => in.outcome.value = <<"data", in.call.text[2]>>
            /\ UNCHANGED <<notes, folders, theme, lsNotes, lsFolders, lsTheme>>]_vars

\* with a credential configured and notes loaded, a response whose text does not
\* parse has resolved with null
C13_Witness ==
    /\ lastOp.name = "analyzeNoteContent"
    /\ lastOp.arg.apiKey
    /\ ~lastOp.arg.call.threw
    /\ lastOp.arg.call.text = Malformed
    /\ lastOp.arg.outcome = resolved(nullResult)
    /\ Len(notes) = 2

----------------------------------------------------------------------------
(* Properties of the editor's tags, under SpecTags *)

\* the names that follow a '#' in text: each a maximal run of name characters,
\* lower-cased
tagsIn(text) ==
    {lowered(SubSeq(text, p[1] + 1, p[2])) :
        p \in {q \in (DOMAIN text) \X (DOMAIN text) :
                 /\ text[q[1]] = "#"
                 /\ q[1] < q[2]
                 /\ \A k \in (q[1] + 1)..q[2] : text[k] \in {"a", "A", "-"}
                 /\ q[2] = Len(text) \/ text[q[2] + 1] \notin {"a", "A", "-"}}}
noDuplicates(list) == \A i, j \in DOMAIN list : list[i] = list[j] => i = j

\* C14: whenever the editor is open the tag list shown holds exactly the manual
\* tags and the tags that follow a '#' in the content, each once; and the record
\* handleSave writes carries exactly these tags, each once.
C14_TagMerge ==
    /\ [](activeNoteId # Null =>
             /\ Range(finalTags) = Range(manualTags) \cup tagsIn(content)
             /\ noDuplicates(finalTags))
    /\ [][lastOp'.name = "saveNote" =>
             \A n \in Range(notes') :
                n.id = lastOp'.arg =>
                   /\ Range(n.tags) = Range(manualTags) \cup tagsIn(content)
                   /\ noDuplicates(n.tags)
                   /\ JSONparse(lsNotes') = notes']_vars
C14_Witness ==
    /\ lastOp.name = "saveNote"
    /\ \E n \in Range(notes) :
          /\ n.id = lastOp.arg
          /\ n.content = <<"#", "-">>
          /\ n.tags = << <<"a">>, <<"-">> >>

----------------------------------------------------------------------------
(* Properties of editing from an empty store, under SpecEdit *)

\* C15: from an empty store, whatever the editor and the note operations did, no
\* note lists a folder id twice or a tag twice, and neither do the editor's
\* folder-association list and manual-tag list.
C15_Deduplicated ==
    /\ \A i \in DOMAIN notes :
          /\ \A j, k \in DOMAIN notes[i].folderIds :
                notes[i].folderIds[j] = notes[i].folderIds[k] => j = k
          /\ \A j, k \in DOMAIN notes[i].tags :
                notes[i].tags[j] = notes[i].tags[k] => j = k
    /\ \A j, k \in DOMAIN manualFolderIds : manualFolderIds[j] = manualFolderIds[k] => j = k
    /\ \A j, k \in DOMAIN manualTags : manualTags[j] = manualTags[k] => j = k
\* a note saved with a folder and a tag
C15_Witness ==
    /\ lastOp.name = "saveNote"
    /\ \E n \in Range(notes) :
          /\ n.id = lastOp.arg
          /\ Len(n.folderIds) = 1
          /\ Len(n.tags) = 1
          /\ n.content = <<"#", "a">>

----------------------------------------------------------------------------
(* Properties of the derived tags, under SpecParse *)

\* C16: for every content, the derived tags are exactly the lower-cased names that
\* follow a '#' in it, each a maximal run of name characters and each listed once,
\* and extracting them again from the same content gives the same tags.
C16_DerivedTags ==
    activeNoteId # Null =>
       /\ Range(derivedTags) = tagsIn(content)
       /\ noDuplicates(derivedTags)
       /\ Range(parseMetadataFromText(content)) = Range(derivedTags)
       /\ parseMetadataFromText(content) = derivedTags
\* one name twice in a content, in different case
C16_Witness ==
    /\ activeNoteId # Null
    /\ content = <<"#", "A", "#", "a">>
    /\ derivedTags = << <<"a">> >>

----------------------------------------------------------------------------
(* Properties of the storage hook, under SpecHook *)

\* C17: when a prune pass has run and the next event leaves the note collection as
\* it was, the prune pass of that event removes no folder, leaves the folder
\* collection as it was and does not write the folder key.
C17_PruneIdempotent ==
    [][(lastOp.name \in NoteOps /\ lastOp'.name \in NoteOps /\ notes' = notes) =>
          /\ folders' = folders
          /\ lsFolders' = lsFolders
          /\ \A i \in DOMAIN lsLog' : lsLog'[i] # "gemini_folders_data"
          /\ \A i \in DOMAIN folders' : referenced(folders'[i].id, notes')]_vars
\* a pass over an unchanged note collection that left a pruned, non-empty folder
\* collection in place
C17_Witness ==
    /\ lastOp.name = "restoreNote"
    /\ lastOp.arg = UnknownId
    /\ lsLog = <<"gemini_notes_data">>
    /\ Len(folders) = 1
    /\ Len(notes) = 2
    /\ \E i \in DOMAIN notes : Len(notes[i].folderIds) = 2 /\ notes[i].isDeleted

----------------------------------------------------------------------------
(* More properties of the tokenizer, under SpecTok *)

\* the buffer without its trailing trigger, or the buffer when it has none
withoutTrailingTrigger(val) ==
    IF \E k \in 1..Len(val) : endsInTriggerAt(val, "@", k) \/ endsInTriggerAt(val, "#", k)
    THEN LET k == CHOOSE j \in 1..Len(val) :
                     endsInTriggerAt(val, "@", j) \/ endsInTriggerAt(val, "#", j)
         IN SubSeq(val, 1, k - 1)
    ELSE val

\* C18: one pass adds at most one folder association or one tag, never both, and
\* removes the trailing trigger only: a folder trigger leaves the tags alone, a tag
\* is added only when the buffer ends in a tag trigger, and what is left of the
\* buffer is not matched again, though it may itself end in a trigger.
C18_OneTriggerPerEvent ==
    [][lastOp'.name = "handleContentChange" =>
         LET val == lastOp'.arg
         IN /\ manualFolderIds' = manualFolderIds \/ manualTags' = manualTags
            /\ \/ manualFolderIds' = manualFolderIds
               \/ /\ Len(manualFolderIds') = Len(manualFolderIds) + 1
                  /\ SubSeq(manualFolderIds', 1, Len(manualFolderIds)) = manualFolderIds
                  /\ endsInTrigger(val, "@")
            /\ \/ manualTags' = manualTags
               \/ /\ Len(manualTags') = Len(manualTags) + 1
                  /\ SubSeq(manualTags', 1, Len(manualTags)) = manualTags
                  /\ endsInTrigger(val, "#")
            /\ Len(folders') <= Len(folders) + 1
            /\ content' = withoutTrailingTrigger(val)]_vars
\* the buffer '. @a @- ' has left '. @a ' as content and only folder '-' associated
C18_Witness ==
    /\ lastOp.name = "handleContentChange"
    /\ lastOp.arg = <<".", " ", "@", "a", " ", "@", "-", " ">>
    /\ content = <<".", " ", "@", "a", " ">>
    /\ Len(folders) = 1
    /\ folders[1].name = <<"-">>
    /\ manualFolderIds = <<folders[1].id>>
    /\ manualTags = <<>>

\* the positions of the folders named name, ignoring case
namedLike(fs, name) == {i \in DOMAIN fs : lowered(fs[i].name) = lowered(name)}

\* C19: on a folder trigger, when a folder is named like the typed name ignoring
\* case no folder is created or stored and the first such folder is the one
\* associated; otherwise one folder is appended and stored, with an id no folder
\* had, the name as typed and the icon "folder", and it is the one associated. An
\* id already associated leaves the association list as it was, and the trigger
\* is removed in every case.
C19_FolderResolution ==
    [][lastOp'.name = "handleContentChange" =>
         \A k \in 1..Len(lastOp'.arg) :
            endsInTriggerAt(lastOp'.arg, "@", k) =>
               LET name == nameAt(lastOp'.arg, k)
                   like == namedLike(folders, name)
                   resolved_ == IF like # {}
                                THEN folders[CHOOSE i \in like : \A j \in like : i <= j].id
                                ELSE folders'[Len(folders')].id
               IN /\ like # {} =>
                        /\ folders' = folders
                        /\ lsFolders' = lsFolders
                        /\ lsLog' = <<>>
                  /\ like = {} =>
                        /\ Len(folders') = Len(folders) + 1
                        /\ SubSeq(folders', 1, Len(folders)) = folders
                        /\ folders'[Len(folders')].name = name
                        /\ folders'[Len(folders')].icon = "folder"
                        /\ DOMAIN folders'[Len(folders')] = {"id", "name", "icon"}
                        /\ \A i \in DOMAIN folders : folders[i].id # resolved_
                        /\ \A i \in DOMAIN manualFolderIds : manualFolderIds[i] # resolved_
                        /\ lsFolders' = <<"json", folders'>>
                        /\ lsLog' = <<"gemini_folders_data">>
                  /\ manualFolderIds' =
                        IF \E i \in DOMAIN manualFolderIds : manualFolderIds[i] = resolved_
                        THEN manualFolderIds
                        ELSE manualFolderIds \o <<resolved_>>
                  /\ content' = SubSeq(lastOp'.arg, 1, k - 1)]_vars
\* '@A ' typed with folders 'aa' and 'a' and the first one associated: folder 'a'
\* is associated as well and no folder is created
C19_Witness ==
    /\ lastOp.name = "handleContentChange"
    /\ lastOp.arg = <<"@", "A", " ">>
    /\ Len(folders) = 2
    /\ folders[2].name = <<"a">>
    /\ manualFolderIds = <<folders[1].id, folders[2].id>>
    /\ content = <<>>
    /\ lsLog = <<>>

\* the collection with the flag of the note id set to b and nothing else changed
flagged(ns, id, b) ==
    [i \in DOMAIN ns |-> IF ns[i].id = id THEN [ns[i] EXCEPT !.isDeleted = b] ELSE ns[i]]
isLive(ns, id) == \A i \in DOMAIN ns : ns[i].id = id => ~ns[i].isDeleted

\* C20 (as stated): deleteNote(id) sets the flag of the note id and restoreNote(id)
\* clears it, every other field, every other note and the order staying as they
\* were; deleteNote(id) followed by restoreNote(id) gives the collection there was
\* before; an unknown id leaves the collection as it was.
C20_SoftDeleteRestore ==
    [][/\ lastOp'.name = "deleteNote" => notes' = flagged(notes, lastOp'.arg, TRUE)
       /\ lastOp'.name = "restoreNote" => notes' = flagged(notes, lastOp'.arg, FALSE)
       /\ lastOp'.name = "deleteThenRestore" => notes' = notes
       /\ (lastOp'.name \in {"deleteNote", "restoreNote", "deleteThenRestore"}
             /\ \A i \in DOMAIN notes : notes[i].id # lastOp'.arg) => notes' = notes]_vars

\* C20 (amended): as stated, except that deleteNote(id) followed by restoreNote(id)
\* gives the collection there was before only when the note id was not in the
\* trash; a note that was in the trash comes out of it.
C20_SoftDeleteRestoreAmended ==
    [][/\ lastOp'.name = "deleteNote" => notes' = flagged(notes, lastOp'.arg, TRUE)
       /\ lastOp'.name = "restoreNote" => notes' = flagged(notes, lastOp'.arg, FALSE)
       /\ lastOp'.name = "deleteThenRestore" =>
             /\ notes' = flagged(notes, lastOp'.arg, FALSE)
             /\ isLive(notes, lastOp'.arg) => notes' = notes
       /\ (lastOp'.name \in {"deleteNote", "restoreNote", "deleteThenRestore"}
             /\ \A i \in DOMAIN notes : notes[i].id # lastOp'.arg) => notes' = notes
       /\ lastOp'.name \in {"deleteNote", "restoreNote", "deleteThenRestore"} =>
             lsNotes' = <<"json", notes'>>]_vars
\* the second of two notes restored, the first one still in the trash
C20_Witness ==
    /\ lastOp.name = "restoreNote"
    /\ Len(notes) = 2
    /\ lastOp.arg = notes[2].id
    /\ ~notes[2].isDeleted
    /\ notes[1].isDeleted
    /\ lsNotes = <<"json", notes>>

----------------------------------------------------------------------------
(* Properties of saving, under SpecSave *)

----------------------------------------------------------------------------
(* More properties of the storage life cycle, under SpecStorage *)

\* the notes of ns whose id is not in gone, as they were and in their order
without(ns, gone) == SelectSeq(ns, LAMBDA n : n.id \notin gone)
trashedIds(ns) == {ns[i].id : i \in {j \in DOMAIN ns : ns[j].isDeleted}}
purged(op, ns) ==
    IF op.name = "permanentlyDeleteNote" THEN without(ns, {op.arg})
    ELSE without(ns, trashedIds(ns))

----------------------------------------------------------------------------
(* More properties of editing from an empty store, under SpecEdit *)

\* C23: from an empty store, whatever the user did, every folder id listed by a
\* note that is not in the trash is the id of a folder of the folder collection.
C23_ReferentialIntegrity ==
    \A i \in DOMAIN notes :
       ~notes[i].isDeleted =>
          \A j \in DOMAIN notes[i].folderIds :
             \E k \in DOMAIN folders : folders[k].id = notes[i].folderIds[j]

----------------------------------------------------------------------------
(* More properties of the storage hook, under SpecHook *)

\* C24: when a note that is not in the trash is deleted and, after the prune pass,
\* restored with nothing in between, every folder it belonged to is in the folder
\* collection again, as it was before the deletion.
C24_TrashRoundTrip ==
    [][lastOp'.name = "trashRoundTrip" =>
          \A i \in DOMAIN notes :
             (notes[i].id = lastOp'.arg /\ ~notes[i].isDeleted) =>
                \A k \in DOMAIN folders :
                   (\E j \in DOMAIN notes[i].folderIds :
                       notes[i].folderIds[j] = folders[k].id) =>
                      \E m \in DOMAIN folders' : folders'[m] = folders[k]]_vars

----------------------------------------------------------------------------
(* Orphan folders and discarded sessions, under SpecEdit *)

\* C25: whenever no editor is open, every folder of the folder collection, and of
\* the stored folder value, is listed by a note that is not in the trash.
C25_NoOrphanFolders ==
    (phase = "ready" /\ activeNoteId = Null) =>
       /\ \A k \in DOMAIN folders : referenced(folders[k].id, notes)
       /\ Len(lsFolders) = 2 =>
             \A k \in DOMAIN lsFolders[2] : referenced(lsFolders[2][k].id, notes)

----------------------------------------------------------------------------
(* Properties of folder names, under SpecNames *)

\* C26: whatever created the folders (the tokenizer, the folder input, the Create
\* button, the New Folder prompt), no two folders have names equal ignoring case.
C26_UniqueFolderNames ==
    \A i, j \in DOMAIN folders :
       lowered(folders[i].name) = lowered(folders[j].name) => i = j

----------------------------------------------------------------------------
(* Properties of an editor session, under SpecEdit *)

\* C27: closing the editor without saving discards everything: no step taken
\* while the editor is open, other than save and delete, changes the note
\* collection, the folder collection or either persisted value, so that at the
\* back button they are what they were when the editor was opened.
C27_CloseDiscards ==
    [][(activeNoteId # Null /\ lastOp'.name \notin {"saveNote", "deleteNote"}) =>
          UNCHANGED <<notes, folders, lsNotes, lsFolders>>]_vars

----------------------------------------------------------------------------
(* Properties of the selection, under SpecSelect *)

\* C28: bulk delete is scoped to the selection session: whenever selection mode
\* is off no note id is selected; and a confirmed bulk delete trashes only notes
\* of the listing shown, leaves every selected note flagged deleted, the
\* selection empty and selection mode off.
C28_SelectionScoped ==
    /\ [](~isSelectionMode => selectedNoteIds = <<>>)
    /\ [][(lastOp'.name = "handleBulkDelete" /\ lastOp'.confirm = Accepted) =>
             /\ \A k \in DOMAIN selectedNoteIds :
                   /\ \E i \in DOMAIN filteredNotes :
                         filteredNotes[i].id = selectedNoteIds[k]
                   /\ \A i \in DOMAIN notes' :
                         notes'[i].id = selectedNoteIds[k] => notes'[i].isDeleted
             /\ selectedNoteIds' = <<>>
             /\ ~isSelectionMode']_vars

----------------------------------------------------------------------------
(* Properties of tags that come from the content alone, under SpecContent *)

\* C29: content-derived tags follow the content across saves: where no tag was
\* ever added through the tag input or a trailing trigger, the tag list a save
\* writes holds no tag whose '#tag' is not in the saved content, also when the
\* note was saved with the tag before, reopened, and the text removed.
C29_TagsFollowContent ==
    [][lastOp'.name = "saveNote" =>
          \A n \in Range(notes') :
             n.id = lastOp'.arg => Range(n.tags) \subseteq tagsIn(n.content)]_vars

----------------------------------------------------------------------------
(* Properties of navigation, under SpecNav *)

\* C30: a folder filter is active only in the 'folders' view and a tag filter
\* only in the 'tags' view; every tab change clears both filters and turns
\* selection mode off; a new note gets the active folder only in the 'folders'
\* view and the active tag only in the 'tags' view, and otherwise has empty
\* content, no folders, no tags, isDeleted = false, and is persisted at once.
C30_NavigationFilters ==
    /\ [](/\ activeFolderId # Null => view = "folders"
          /\ activeTag # <<>> => view = "tags")
    /\ [][lastOp'.name = "onTabChange" =>
             /\ view' = lastOp'.arg
             /\ activeFolderId' = Null
             /\ activeTag' = <<>>
             /\ ~isSelectionMode']_vars
    /\ [][lastOp'.name = "createNewNote" =>
             /\ Len(notes') = Len(notes) + 1
             /\ notes'[1].id = lastOp'.arg
             /\ notes'[1].id \notin {notes[i].id : i \in DOMAIN notes}
             /\ notes'[1].content = <<>>
             /\ ~notes'[1].isDeleted
             /\ notes'[1].folderIds =
                   IF view = "folders" /\ activeFolderId # Null
                   THEN <<activeFolderId>> ELSE <<>>
             /\ notes'[1].tags =
                   IF view = "tags" /\ activeTag # <<>> THEN <<activeTag>> ELSE <<>>
             /\ Len(lsNotes') = 2
             /\ lsNotes'[2] = notes']_vars
\* a note created under an active folder filter, with selection mode having
\* been on before a tab change
C30_Witness ==
    /\ lastOp.name = "createNewNote"
    /\ view = "folders"
    /\ activeFolderId # Null
    /\ notes[1].id = lastOp.arg
    /\ notes[1].folderIds = <<activeFolderId>>

====
